---- MODULE Spec2Model ----
(***************************************************************************)
(* StudyPal (spqr-86/StudyPal): the subtitle segmentation engine of        *)
(* src/src/blocks.py and the session handlers of src/src/interface.py that *)
(* use it.  Times are whole seconds.  Text is a TLA+ string, handled       *)
(* character by character the way the Python code handles it.              *)
(***************************************************************************)
EXTENDS Integers, Sequences, FiniteSets, TLC

VARIABLES
    pc,                 \* "ready" before the call under study, "done" after it
    request,            \* the arguments of the call
    response,           \* what the call returned
    chapters,           \* the chapter list held by the reconciliation, as left by it
    queried,            \* the chapter sources the reconciliation called, in call order
    subtitles,          \* app_state.subtitles
    video_info,         \* app_state.video_info
    subtitle_blocks,    \* app_state.subtitle_blocks
    table_of_contents,  \* app_state.table_of_contents
    vectordb,           \* app_state.vectordb
    qa_chain,           \* app_state.qa_chain
    current_model,      \* app_state.current_model
    disk                \* the saved collections under DB_PATH, by video id

vars == <<pc, request, response, chapters, queried, subtitles, video_info,
          subtitle_blocks, table_of_contents, vectordb, qa_chain, current_model,
          disk>>

app_state == <<subtitles, video_info, subtitle_blocks, table_of_contents,
               vectordb, qa_chain, current_model>>

-----------------------------------------------------------------------------
(* Python's str operations, on TLA+ strings.                               *)

Chr(s, i) == SubSeq(s, i, i)

Min(a, b) == IF a < b THEN a ELSE b

Take(seq, n) == SubSeq(seq, 1, Min(n, Len(seq)))

ToLower ==
    ("A" :> "a") @@ ("B" :> "b") @@ ("C" :> "c") @@ ("D" :> "d") @@
    ("E" :> "e") @@ ("F" :> "f") @@ ("G" :> "g") @@ ("H" :> "h") @@
    ("I" :> "i") @@ ("J" :> "j") @@ ("K" :> "k") @@ ("L" :> "l") @@
    ("M" :> "m") @@ ("N" :> "n") @@ ("O" :> "o") @@ ("P" :> "p") @@
    ("Q" :> "q") @@ ("R" :> "r") @@ ("S" :> "s") @@ ("T" :> "t") @@
    ("U" :> "u") @@ ("V" :> "v") @@ ("W" :> "w") @@ ("X" :> "x") @@
    ("Y" :> "y") @@ ("Z" :> "z")

LowerLetters == {ToLower[c] : c \in DOMAIN ToLower}

DigitChars == {"0", "1", "2", "3", "4", "5", "6", "7", "8", "9"}

LowerChar(c) == IF c \in DOMAIN ToLower THEN ToLower[c] ELSE c

UpperChar(c) ==
    IF c \in LowerLetters
    THEN CHOOSE u \in DOMAIN ToLower : ToLower[u] = c
    ELSE c

\* str.isalnum() of one character
IsAlnumChar(c) == c \in LowerLetters \/ c \in DOMAIN ToLower \/ c \in DigitChars

\* the characters cs[lo..hi] put together into one string
RECURSIVE Concat(_, _, _)
Concat(cs, lo, hi) ==
    IF lo > hi THEN ""
    ELSE IF lo = hi THEN cs[lo]
    ELSE LET mid == (lo + hi) \div 2
         IN Concat(cs, lo, mid) \o Concat(cs, mid + 1, hi)

\* str.lower()
Lower(s) ==
    LET cs == [i \in 1..Len(s) |-> LowerChar(Chr(s, i))] IN Concat(cs, 1, Len(s))

\* str.capitalize(): the first character upper-cased, the rest lower-cased
Capitalize(s) ==
    IF s = "" THEN "" ELSE UpperChar(Chr(s, 1)) \o Lower(SubSeq(s, 2, Len(s)))

\* str.isalnum(): every character alphanumeric, and at least one character
IsAlnum(s) == s # "" /\ \A i \in 1..Len(s) : IsAlnumChar(Chr(s, i))

KeepIfAlnum(c) == IF IsAlnumChar(c) THEN c ELSE ""

\* ''.join(c for c in word if c.isalnum())
KeepAlnum(s) ==
    LET cs == [i \in 1..Len(s) |-> KeepIfAlnum(Chr(s, i))] IN Concat(cs, 1, Len(s))

SetMin(S) == CHOOSE x \in S : \A y \in S : x <= y

SetMax(S) == CHOOSE x \in S : \A y \in S : y <= x

\* the elements of a set of integers, ascending
RECURSIVE Ascending(_)
Ascending(S) ==
    IF S = {} THEN <<>> ELSE <<SetMin(S)>> \o Ascending(S \ {SetMin(S)})

\* str.strip()
Strip(s) ==
    LET inked == {i \in 1..Len(s) : Chr(s, i) # " "}
    IN IF inked = {} THEN "" ELSE SubSeq(s, SetMin(inked), SetMax(inked))

\* str.startswith(p)
StartsWith(s, p) == Len(s) >= Len(p) /\ SubSeq(s, 1, Len(p)) = p

\* str.split(): the maximal runs of non-blank characters
SplitWords(s) ==
    LET starts == {i \in 1..Len(s) : Chr(s, i) # " " /\ (i = 1 \/ Chr(s, i - 1) = " ")}
        ends == {i \in 1..Len(s) : Chr(s, i) # " " /\ (i = Len(s) \/ Chr(s, i + 1) = " ")}
        from == Ascending(starts)
        to == Ascending(ends)
    IN [k \in 1..Len(from) |-> SubSeq(s, from[k], to[k])]

\* sep.join(parts)
RECURSIVE Join(_, _)
Join(parts, sep) ==
    IF parts = <<>> THEN ""
    ELSE IF Len(parts) = 1 THEN parts[1]
    ELSE parts[1] \o sep \o Join(Tail(parts), sep)

-----------------------------------------------------------------------------
(* The Title Generator: generate_block_titles, method "enhanced_keywords". *)
(* nltk's tokenizers are library code; they are modelled by what they do   *)
(* on the lower-cased, lightly punctuated text the engine feeds them.      *)

SentenceEnd == {".", "!", "?"}

\* nltk.tokenize.sent_tokenize: a sentence ends at . ! ? followed by a blank
\* or by the end of the text; sentences are returned stripped
SentTokenize(text) ==
    LET breaks == {i \in 1..Len(text) :
                      /\ Chr(text, i) \in SentenceEnd
                      /\ (i = Len(text) \/ Chr(text, i + 1) = " ")}
        to == Ascending(breaks)
        from == [k \in 1..Len(to) |-> IF k = 1 THEN 1 ELSE to[k - 1] + 1]
        closed == [k \in 1..Len(to) |-> Strip(SubSeq(text, from[k], to[k]))]
        rest == Strip(SubSeq(text, (IF breaks = {} THEN 0 ELSE SetMax(breaks)) + 1,
                             Len(text)))
    IN IF rest = "" THEN closed ELSE Append(closed, rest)

Punctuation == {".", ",", "!", "?"}

\* one blank-separated word as word_tokenize splits it: trailing punctuation
\* becomes tokens of its own
RECURSIVE TokenizeWord(_)
TokenizeWord(w) ==
    IF Len(w) > 1 /\ Chr(w, Len(w)) \in Punctuation
    THEN TokenizeWord(SubSeq(w, 1, Len(w) - 1)) \o <<Chr(w, Len(w))>>
    ELSE <<w>>

RECURSIVE TokenizeWords(_)
TokenizeWords(ws) ==
    IF ws = <<>> THEN <<>> ELSE TokenizeWord(Head(ws)) \o TokenizeWords(Tail(ws))

\* nltk.tokenize.word_tokenize
WordTokenize(text) == TokenizeWords(SplitWords(text))

\* the filler words the code adds to the stop words
AdditionalStopWords ==
    {"yeah", "uh", "um", "oh", "like", "just", "so", "know", "think", "well",
     "going", "get", "got", "actually", "okay", "right", "thing", "things",
     "gonna", "wanna"}

\* stopwords.words('english'), the part of the list the model's texts can meet
EnglishStopWords ==
    {"i", "a", "an", "the", "and", "is", "it", "so", "just", "this", "that",
     "themselves"}

StopWords == EnglishStopWords \cup AdditionalStopWords

\* clean_first_words: the first 7 words of the first sentence, stripped of
\* non-alphanumeric characters, those of 2 characters or more kept
RECURSIVE CleanFirstWords(_)
CleanFirstWords(ws) ==
    IF ws = <<>> THEN <<>>
    ELSE LET clean_word == KeepAlnum(Head(ws))
         IN (IF clean_word # "" /\ Len(clean_word) > 1 THEN <<clean_word>> ELSE <<>>)
            \o CleanFirstWords(Tail(ws))

IsKeyword(word) == IsAlnum(word) /\ Lower(word) \notin StopWords /\ Len(word) > 2

\* the content words of the block, lower-cased
RECURSIVE ContentWords(_)
ContentWords(ws) ==
    IF ws = <<>> THEN <<>>
    ELSE (IF IsKeyword(Head(ws)) THEN <<Lower(Head(ws))>> ELSE <<>>)
         \o ContentWords(Tail(ws))

Count(w, words) == Cardinality({k \in 1..Len(words) : words[k] = w})

\* the keys of Counter(words), in order of first occurrence
RECURSIVE Uniq(_, _)
Uniq(words, seen) ==
    IF words = <<>> THEN <<>>
    ELSE IF Head(words) \in seen THEN Uniq(Tail(words), seen)
    ELSE <<Head(words)>> \o Uniq(Tail(words), seen \cup {Head(words)})

\* Counter.most_common(n): by count, descending; ties in order of first occurrence
RECURSIVE MostCommonOf(_, _, _)
MostCommonOf(keys, words, n) ==
    IF n = 0 \/ keys = <<>> THEN <<>>
    ELSE LET best == CHOOSE k \in 1..Len(keys) :
                        /\ \A j \in 1..Len(keys) : Count(keys[j], words) <= Count(keys[k], words)
                        /\ \A j \in 1..(k - 1) : Count(keys[j], words) < Count(keys[k], words)
             rest == [j \in 1..(Len(keys) - 1) |-> IF j < best THEN keys[j] ELSE keys[j + 1]]
         IN <<keys[best]>> \o MostCommonOf(rest, words, n - 1)

MostCommon(words, n) == MostCommonOf(Uniq(words, {}), words, n)

\* top_words: of the 4 most common content words, those occurring more than once
TopWords(words) ==
    LET common == MostCommon(words, 4)
    IN SelectSeq(common, LAMBDA w : Count(w, words) > 1)

MaxTitleLen == 70

\* the final length limit on a title
LimitTitle(title) ==
    IF Len(title) > MaxTitleLen THEN SubSeq(title, 1, MaxTitleLen) \o "..." ELSE title

\* the title of block number n (from 1) of the batch, nltk working
EnhancedKeywordsTitle(content_text, n) ==
    LET text == Lower(content_text)
        sentences == SentTokenize(text)
        first_sentence == IF sentences # <<>> THEN sentences[1] ELSE ""
        first_phrase == Join(CleanFirstWords(Take(SplitWords(first_sentence), 7)), " ")
        top_words == TopWords(ContentWords(WordTokenize(text)))
        short_phrase == IF Len(first_phrase) > 30
                        THEN SubSeq(first_phrase, 1, 30) \o "..."
                        ELSE first_phrase
        key_words == Join(Take(top_words, 3), ", ")
        title == IF top_words # <<>> /\ first_phrase # ""
                 THEN Capitalize(short_phrase)
                      \o (IF key_words # "" THEN " [" \o key_words \o "]" ELSE "")
                 ELSE IF first_phrase # "" THEN Capitalize(first_phrase)
                 ELSE IF top_words # <<>> THEN "Topic: " \o Join(Take(top_words, 4), ", ")
                 ELSE "Section " \o ToString(n)
    IN LimitTitle(title)

\* the title the except-branch gives when a tokenizer raises
FallbackTitle(content_text, n) ==
    "Section " \o ToString(n) \o ": " \o Join(Take(SplitWords(content_text), 5), " ") \o "..."

\* generate_block_titles(blocks, method="enhanced_keywords"); nltk_ok is whether
\* nltk's tokenizer data can be loaded (a LookupError otherwise, caught)
GenerateBlockTitles(blocks, nltk_ok) ==
    [n \in 1..Len(blocks) |->
        [blocks[n] EXCEPT !.title =
            IF nltk_ok THEN EnhancedKeywordsTitle(blocks[n].content_text, n)
                       ELSE FallbackTitle(blocks[n].content_text, n)]]

\* method "first_sentence": the first sentence, cut to 60 characters; nltk
\* working
FirstSentenceTitle(content_text, n) ==
    LET sentences == SentTokenize(content_text)
    IN IF sentences # <<>>
       THEN (IF Len(sentences[1]) > 60
             THEN SubSeq(sentences[1], 1, 60) \o "..."
             ELSE sentences[1])
       ELSE "Section " \o ToString(n) \o ": "
                \o Join(Take(SplitWords(content_text), 7), " ") \o "..."

\* any other method: the first 7 words
SimpleTitle(content_text, n) ==
    LET first_words == Join(Take(SplitWords(content_text), 7), " ")
    IN IF first_words # "" THEN Capitalize(first_words) \o "..."
       ELSE "Section " \o ToString(n)

\* a call that returned blocks, and a call that raised
Returned(blocks) == [kind |-> "Returned", blocks |-> blocks]

Raised(error) == [kind |-> "Raised", error |-> error]

\* generate_block_titles(blocks, method).  The test of the second branch
\* reads api_status, a name blocks.py neither defines nor imports: for
\* method "openai" the call raises NameError there, outside every try.
generate_block_titles(blocks, method, nltk_ok) ==
    IF method = "enhanced_keywords"
    THEN Returned(GenerateBlockTitles(blocks, nltk_ok))
    ELSE IF method = "openai"
    THEN Raised("NameError: name 'api_status' is not defined")
    ELSE IF method = "first_sentence"
    THEN Returned([n \in 1..Len(blocks) |->
                      [blocks[n] EXCEPT !.title =
                          IF nltk_ok THEN FirstSentenceTitle(blocks[n].content_text, n)
                                     ELSE FallbackTitle(blocks[n].content_text, n)]])
    ELSE Returned([n \in 1..Len(blocks) |->
                      [blocks[n] EXCEPT !.title = SimpleTitle(blocks[n].content_text, n)]])

-----------------------------------------------------------------------------
(* The automatic splitter: analyze_subtitles_into_blocks.                  *)

DefaultDuration == 5

DefaultMinBlockDuration == 60

DefaultMinPauseThreshold == 3

DefaultMaxBlockSize == 25

MinSubtitles == 5

\* subtitle.get("duration", 5)
Dur(s) == IF "duration" \in DOMAIN s THEN s.duration ELSE DefaultDuration

\* the time a cue ends
EndOf(s) == s.start + Dur(s)

\* [s.get("text", "") for s in subtitles]
Texts(subs) == [k \in 1..Len(subs) |-> subs[k].text]

\* not subtitles or len(subtitles) < 5
FewSubtitlesOffByOne(subs) == subs = <<>> \/ Len(subs) < MinSubtitles - 1

FewSubtitles(subs) == subs = <<>> \/ Len(subs) < MinSubtitles

SingleBlockEndsAtFirst(subs) ==
    [start_time |-> IF subs # <<>> THEN subs[1].start ELSE 0,
     end_time |-> IF subs # <<>> THEN EndOf(subs[1]) ELSE 0,
     subtitles |-> subs,
     content_text |-> Join(Texts(subs), " "),
     title |-> "Ves' kontent"]

\* the one block returned for a short transcript; its title is the Russian
\* for "All content", 12 characters, written here in Latin letters
SingleBlock(subs) ==
    [start_time |-> IF subs # <<>> THEN subs[1].start ELSE 0,
     end_time |-> IF subs # <<>> THEN EndOf(subs[Len(subs)]) ELSE 0,
     subtitles |-> subs,
     content_text |-> Join(Texts(subs), " "),
     title |-> "Ves' kontent"]

\* pause_duration after cue i, when a cue follows
PauseDuration(subs, i) == subs[i + 1].start - EndOf(subs[i])

PauseSplitStrict(subs, i, min_pause_threshold) ==
    i < Len(subs) /\ PauseDuration(subs, i) > min_pause_threshold

\* the pause check: a cue follows and the pause reaches the threshold
PauseSplit(subs, i, min_pause_threshold) ==
    i < Len(subs) /\ PauseDuration(subs, i) >= min_pause_threshold

SizeSplitStrict(current_block, max_block_size) == Len(current_block) > max_block_size

\* the size check
SizeSplit(current_block, max_block_size) == Len(current_block) >= max_block_size

\* the candidate closes at cue i: should_split or i is the last cue
Closes(subs, i, current_block, min_pause_threshold, max_block_size) ==
    \/ PauseSplit(subs, i, min_pause_threshold)
    \/ SizeSplit(current_block, max_block_size)
    \/ i = Len(subs)

\* a loop that holds the last candidate to the minimum duration too
EmitsOnlyLongEnough(subs, i, current_block, min_block_duration) ==
    EndOf(current_block[Len(current_block)]) - current_block[1].start
        >= min_block_duration

\* a loop that emits every closing candidate, whatever its duration
EmitsWhenever(subs, i, current_block, min_block_duration) == TRUE

\* a closing candidate is emitted: long enough, or closed by the last cue
Emits(subs, i, current_block, min_block_duration) ==
    \/ EndOf(current_block[Len(current_block)]) - current_block[1].start
           >= min_block_duration
    \/ i = Len(subs)

NewBlock(current_block, current_block_text) ==
    [start_time |-> current_block[1].start,
     end_time |-> EndOf(current_block[Len(current_block)]),
     subtitles |-> current_block,
     content_text |-> Strip(current_block_text),
     title |-> ""]

KeptAccumulatorReset(current_block, emitted) == <<>>

\* current_block after cue i: emptied only when the block was emitted
KeptAccumulator(current_block, emitted) == IF emitted THEN <<>> ELSE current_block

\* a loop that never empties the text accumulator
KeptTextNeverReset(current_block_text, emitted) == current_block_text

\* current_block_text after cue i: emptied together with current_block
KeptText(current_block_text, emitted) == IF emitted THEN "" ELSE current_block_text

\* the loop over the cues, from cue i on
RECURSIVE SplitLoop(_, _, _, _, _, _, _, _)
SplitLoop(subs, i, current_block, current_block_text, blocks, min_block_duration, min_pause_threshold, max_block_size) ==
    IF i > Len(subs) THEN blocks
    ELSE LET block == Append(current_block, subs[i])
             text == current_block_text \o " " \o subs[i].text
             emitted ==
                 /\ Closes(subs, i, block, min_pause_threshold, max_block_size)
                 /\ block # <<>>
                 /\ Emits(subs, i, block, min_block_duration)
         IN SplitLoop(subs, i + 1,
                      KeptAccumulator(block, emitted),
                      KeptText(text, emitted),
                      IF emitted THEN Append(blocks, NewBlock(block, text)) ELSE blocks,
                      min_block_duration, min_pause_threshold, max_block_size)

\* analyze_subtitles_into_blocks(subtitles, min_block_duration,
\*                               min_pause_threshold, max_block_size)
AnalyzeSubtitlesIntoBlocks(subs, min_block_duration, min_pause_threshold, max_block_size, nltk_ok) ==
    IF FewSubtitles(subs) THEN <<SingleBlock(subs)>>
    ELSE GenerateBlockTitles(
             SplitLoop(subs, 1, <<>>, "", <<>>,
                       min_block_duration, min_pause_threshold, max_block_size),
             nltk_ok)

-----------------------------------------------------------------------------
(* The chapter sources and chapter reconciliation:                         *)
(* analyze_subtitles_into_blocks_with_chapters.  A chapter is a record     *)
(* [title, start_time, end_time]; Python's None is written None, a value   *)
(* no time takes (times are never negative).                               *)

None == -1

\* x or None, for a number x: 0 is falsy
OrNone(x) == IF x = 0 THEN None ELSE x

\* get_youtube_chapters: the chapters found in the watch page, chapters_data a
\* sequence of [title, start_time]; a failure of any step returns the empty list
GetYoutubeChapters(chapters_data) ==
    [i \in 1..Len(chapters_data) |->
        [title |-> chapters_data[i].title,
         start_time |-> chapters_data[i].start_time,
         end_time |-> IF i < Len(chapters_data)
                      THEN OrNone(chapters_data[i + 1].start_time)
                      ELSE None]]

\* get_youtube_video_chapters_api: the chapters found among the timestamps of
\* the video's description, matches a sequence of [title, start_time]
GetYoutubeVideoChaptersApi(matches) ==
    [i \in 1..Len(matches) |->
        [title |-> matches[i].title,
         start_time |-> matches[i].start_time,
         end_time |-> IF i < Len(matches) THEN matches[i + 1].start_time ELSE None]]

\* the chapters of the page's data, however the request went
PageChaptersWhateverStatus(page) == GetYoutubeChapters(page.chapters_data)

\* get_youtube_chapters(video_id).  page is how the request for the watch page
\* went: status "ok" (HTTP 200, the page's scripts parsed), "ConnectionError"
\* (requests.get raises), "HTTP 404" (any status but 200) or "JSONDecodeError"
\* (the chapter data of the page cannot be parsed, and the page has no chapter
\* elements either); chapters_data is the chapter data the page holds.  Every
\* failure is caught inside and gives the empty list.
get_youtube_chapters(page) ==
    IF page.status = "ok" THEN GetYoutubeChapters(page.chapters_data) ELSE <<>>

\* get_youtube_video_chapters_api(video_id).  api is how the request to the
\* Data API went: status "ok", "NoApiKey" (YOUTUBE_DATA_API_KEY not set),
\* "ConnectionError" (requests.get raises) or "HTTP 403" (any status but 200);
\* matches is the timestamps the video's description holds.
get_youtube_video_chapters_api(api) ==
    IF api.status = "ok" THEN GetYoutubeVideoChaptersApi(api.matches) ELSE <<>>

\* the chapters taken from the description whatever the page returned
FoundChaptersApiFirst(page_chapters, api_chapters) ==
    IF api_chapters # <<>> THEN api_chapters ELSE page_chapters

\* the chapters the engine uses: the page's, the description's if those are none
FoundChapters(page_chapters, api_chapters) ==
    IF page_chapters # <<>> THEN page_chapters ELSE api_chapters

\* the sources analyze_subtitles_into_blocks_with_chapters calls, in call
\* order: none for an empty transcript, the Data API only if the page gave no
\* chapters
QueriedSources(subs, page_chapters) ==
    IF subs = <<>> THEN <<>>
    ELSE IF page_chapters # <<>> THEN <<"get_youtube_chapters">>
    ELSE <<"get_youtube_chapters", "get_youtube_video_chapters_api">>

\* video_end_time: the end of the last cue
VideoEndTime(subs) == IF subs # <<>> THEN EndOf(subs[Len(subs)]) ELSE 0

ResolveAllToVideoEnd(chs, video_end_time) ==
    [i \in 1..Len(chs) |->
        IF chs[i].end_time = None
        THEN [chs[i] EXCEPT !.end_time = video_end_time]
        ELSE chs[i]]

\* the chapters with every missing end_time filled in
ResolveEndTimes(chs, video_end_time) ==
    [i \in 1..Len(chs) |->
        IF chs[i].end_time = None
        THEN [chs[i] EXCEPT !.end_time =
                 IF i < Len(chs) THEN chs[i + 1].start_time ELSE video_end_time]
        ELSE chs[i]]

\* the cues starting in (start_time, end_time), both ends left out
ChapterSubtitlesAfterStart(subs, chapter) ==
    SelectSeq(subs, LAMBDA s : s.start > chapter.start_time /\ s.start < chapter.end_time)

\* the cues starting in [start_time, end_time], both ends included
ChapterSubtitlesInclusive(subs, chapter) ==
    SelectSeq(subs, LAMBDA s : s.start >= chapter.start_time /\ s.start <= chapter.end_time)

\* the cues of a chapter: those starting in [start_time, end_time)
ChapterSubtitles(subs, chapter) ==
    SelectSeq(subs, LAMBDA s : s.start >= chapter.start_time /\ s.start < chapter.end_time)

\* a chapter becomes a block only if it has cues
KeepsChapterWithCues(subs, chapter, min_block_duration) ==
    ChapterSubtitles(subs, chapter) # <<>>

\* a chapter becomes a block if it has cues or lasts min_block_duration
KeepsChapter(subs, chapter, min_block_duration) ==
    \/ ChapterSubtitles(subs, chapter) # <<>>
    \/ chapter.end_time - chapter.start_time >= min_block_duration

ChapterBlock(subs, chapter) ==
    [start_time |-> chapter.start_time,
     end_time |-> chapter.end_time,
     subtitles |-> ChapterSubtitles(subs, chapter),
     content_text |-> Join(Texts(ChapterSubtitles(subs, chapter)), " "),
     title |-> chapter.title]

\* the blocks of the chapters, in the chapters' order
RECURSIVE ChapterBlocks(_, _, _)
ChapterBlocks(subs, chs, min_block_duration) ==
    IF chs = <<>> THEN <<>>
    ELSE (IF KeepsChapter(subs, Head(chs), min_block_duration)
          THEN <<ChapterBlock(subs, Head(chs))>> ELSE <<>>)
         \o ChapterBlocks(subs, Tail(chs), min_block_duration)

\* the chapter list as the call leaves it: fetched only for a non-empty
\* transcript, its missing end times filled in
ReconciledChapters(subs, page_chapters, api_chapters) ==
    IF subs = <<>> THEN <<>>
    ELSE ResolveEndTimes(FoundChapters(page_chapters, api_chapters), VideoEndTime(subs))

\* analyze_subtitles_into_blocks_with_chapters(subtitles, video_id, video_info,
\* min_block_duration), the two chapter sources answering page_chapters and
\* api_chapters for video_id
AnalyzeSubtitlesIntoBlocksWithChapters(subs, page_chapters, api_chapters, min_block_duration, nltk_ok) ==
    IF subs = <<>> THEN <<>>
    ELSE IF FoundChapters(page_chapters, api_chapters) # <<>>
    THEN ChapterBlocks(subs, ReconciledChapters(subs, page_chapters, api_chapters),
                       min_block_duration)
    ELSE AnalyzeSubtitlesIntoBlocks(subs, min_block_duration, DefaultMinPauseThreshold,
                                    DefaultMaxBlockSize, nltk_ok)

-----------------------------------------------------------------------------
(* The table of contents and the block pipeline:                           *)
(* generate_table_of_contents and process_subtitles_with_blocks.  Russian  *)
(* labels are written in Latin letters, the two icons as (i) and (#).      *)

TwoDigits(n) == IF n < 10 THEN "0" \o ToString(n) ELSE ToString(n)

\* utils.format_time: HH:MM:SS
FormatTime(seconds) ==
    TwoDigits(seconds \div 3600) \o ":" \o TwoDigits((seconds \div 60) % 60)
        \o ":" \o TwoDigits(seconds % 60)

\* block.get("is_youtube_chapter", False)
GetIsYoutubeChapter(block) ==
    IF "is_youtube_chapter" \in DOMAIN block THEN block.is_youtube_chapter ELSE FALSE

\* any(block.get("is_youtube_chapter", False) for block in blocks)
HasYoutubeChapters(blocks) == \E i \in 1..Len(blocks) : GetIsYoutubeChapter(blocks[i])

\* the entry of block number n (from 1)
TocEntry(block, n) ==
    "### " \o ToString(n) \o ". "
        \o (IF GetIsYoutubeChapter(block) THEN "(#) " ELSE "") \o block.title \o "\n"
        \o "**Vremya:** " \o FormatTime(block.start_time)
        \o " | **Dlitel'nost':** " \o FormatTime(block.end_time - block.start_time)
        \o "\n\n"

generate_table_of_contents(blocks) ==
    "# Oglavlenie video\n\n"
        \o (IF HasYoutubeChapters(blocks)
            THEN "> (i) Oglavlenie sozdano na osnove glav YouTube\n\n" ELSE "")
        \o Join([n \in 1..Len(blocks) |-> TocEntry(blocks[n], n)], "")

\* a title the pipeline throws away: empty, or one starting with "Section "
NeedsTitle(block) == block.title = "" \/ StartsWith(block.title, "Section ")

\* the blocks after the title pass: those needing a title are titled as one
\* batch, numbered within that batch, the others keep theirs
TitledBlocks(blocks, nltk_ok) ==
    LET reset == [i \in 1..Len(blocks) |->
                     IF NeedsTitle(blocks[i]) THEN [blocks[i] EXCEPT !.title = ""]
                     ELSE blocks[i]]
        blocks_to_title == SelectSeq(reset, LAMBDA b : b.title = "")
        titled_blocks == GenerateBlockTitles(blocks_to_title, nltk_ok)
        rank(i) == Cardinality({j \in 1..i : reset[j].title = ""})
    IN [i \in 1..Len(blocks) |->
           IF reset[i].title = "" THEN titled_blocks[rank(i)] ELSE reset[i]]

\* the blocks of a transcript: with a video id the chapter path, else the splitter
SegmentedBlocks(subs, has_video_id, page_chapters, api_chapters, nltk_ok) ==
    TitledBlocks(
        IF has_video_id
        THEN AnalyzeSubtitlesIntoBlocksWithChapters(
                 subs, page_chapters, api_chapters, DefaultMinBlockDuration, nltk_ok)
        ELSE AnalyzeSubtitlesIntoBlocks(
                 subs, DefaultMinBlockDuration, DefaultMinPauseThreshold,
                 DefaultMaxBlockSize, nltk_ok),
        nltk_ok)

\* blocks_metadata: what is kept of each block
BlocksMetadata(blocks) ==
    [i \in 1..Len(blocks) |->
        [start_time |-> blocks[i].start_time,
         end_time |-> blocks[i].end_time,
         title |-> blocks[i].title,
         is_youtube_chapter |-> GetIsYoutubeChapter(blocks[i])]]

\* video_info with "blocks" and "has_youtube_chapters" set
WithBlocksMetadata(info, blocks) ==
    ("blocks" :> BlocksMetadata(blocks))
        @@ ("has_youtube_chapters" :> HasYoutubeChapters(blocks))
        @@ info

-----------------------------------------------------------------------------
(* Reloading a saved session: load_database_by_id and the restoring part   *)
(* of load_database_from_list.                                             *)

\* process_subtitles_to_documents, for a transcript whose text fits one chunk
\* (chunk_size 1000): one document, stamped with the first cue's start
process_subtitles_to_documents(subs) ==
    IF subs = <<>> THEN <<>>
    ELSE <<[page_content |-> Strip(Join(Texts(subs), " ")),
            timestamp |-> subs[1].start]>>

\* the cues rebuilt from the documents of the collection
SubtitleOfDocument(doc) ==
    [start |-> doc.timestamp, duration |-> DefaultDuration, text |-> doc.page_content]

\* list.sort(key=start): stable
RECURSIVE SortByStart(_)
SortByStart(subs) ==
    IF subs = <<>> THEN <<>>
    ELSE LET first == CHOOSE k \in 1..Len(subs) :
                         /\ \A j \in 1..Len(subs) : subs[k].start <= subs[j].start
                         /\ \A j \in 1..(k - 1) : subs[j].start > subs[k].start
             rest == [j \in 1..(Len(subs) - 1) |-> IF j < first THEN subs[j] ELSE subs[j + 1]]
         IN <<subs[first]>> \o SortByStart(rest)

RestoredSubtitles(documents) ==
    SortByStart([k \in 1..Len(documents) |-> SubtitleOfDocument(documents[k])])

\* the cues of a saved block: those starting in [start_time, end_time]
BlockSubtitles(subs, block_meta) ==
    SelectSeq(subs, LAMBDA s : s.start >= block_meta.start_time
                               /\ s.start <= block_meta.end_time)

\* the blocks rebuilt from the saved records and the cues at hand
RestoreBlocks(blocks_meta, subs) ==
    [i \in 1..Len(blocks_meta) |->
        [start_time |-> blocks_meta[i].start_time,
         end_time |-> blocks_meta[i].end_time,
         title |-> blocks_meta[i].title,
         subtitles |-> BlockSubtitles(subs, blocks_meta[i]),
         content_text |-> Join(Texts(BlockSubtitles(subs, blocks_meta[i])), " ")]]

\* the video_info load_database_by_id makes up when metadata.json is missing
\* or unreadable
DefaultVideoInfo(video_id) ==
    [video_id |-> video_id, title |-> "Video " \o video_id, language |-> "unknown"]

\* no collection saved for any video
NotSaved == <<>>

\* the videos of the model, by their 11-character ids
VideoIds == {"AAAAAAAAAAA", "BBBBBBBBBBB"}

EmptyDisk == [id \in VideoIds |-> NotSaved]

-----------------------------------------------------------------------------
(* Block lookup: display_toc_entry and get_block_content.  An index is any *)
(* Python value the caller passes: an int, a str, a float (written by      *)
(* twice its value, so that halves can be told), float("inf"), or None.    *)

IntIndex(n) == [type |-> "int", int |-> n]

StrIndex(str) == [type |-> "str", str |-> str]

FloatIndex(twice) == [type |-> "float", twice |-> twice]

InfIndex == [type |-> "float", inf |-> TRUE]

NoneIndex == [type |-> "NoneType"]

DigitValue(c) == CHOOSE d \in 0..9 : ToString(d) = c

\* the number written by a string of digits
RECURSIVE DigitsValue(_)
DigitsValue(digits) ==
    IF digits = "" THEN 0
    ELSE 10 * DigitsValue(SubSeq(digits, 1, Len(digits) - 1))
         + DigitValue(Chr(digits, Len(digits)))

ValueError == [ok |-> FALSE, error |-> "ValueError"]

\* int(str): blanks around, an optional sign, then digits only
IntOfStr(str) ==
    LET t == Strip(str)
        signed == t # "" /\ Chr(t, 1) \in {"+", "-"}
        digits == IF signed THEN SubSeq(t, 2, Len(t)) ELSE t
    IN IF digits # "" /\ \A i \in 1..Len(digits) : Chr(digits, i) \in DigitChars
       THEN [ok |-> TRUE,
             value |-> IF signed /\ Chr(t, 1) = "-" THEN 0 - DigitsValue(digits)
                       ELSE DigitsValue(digits)]
       ELSE ValueError

\* int(float): towards zero
IntOfFloat(twice) == IF twice >= 0 THEN twice \div 2 ELSE 0 - ((0 - twice) \div 2)

\* Python's int(block_index)
int(block_index) ==
    CASE block_index.type = "int" -> [ok |-> TRUE, value |-> block_index.int]
      [] block_index.type = "str" -> IntOfStr(block_index.str)
      [] block_index.type = "float" ->
            IF "inf" \in DOMAIN block_index
            THEN [ok |-> FALSE, error |-> "OverflowError"]
            ELSE [ok |-> TRUE, value |-> IntOfFloat(block_index.twice)]
      [] OTHER -> [ok |-> FALSE, error |-> "TypeError"]

\* the range check passes
InRange(blocks, n) == ~(n < 0 \/ n >= Len(blocks))

\* the checks both lookups make before touching a block: what they return
\* without one, or the position (from 0) of the block to show
CheckIndex(blocks, block_index) ==
    IF blocks = <<>> THEN [kind |-> "NoBlocks"]
    ELSE LET n == int(block_index)
         IN IF ~n.ok
            THEN (IF n.error \in {"ValueError", "TypeError"}
                  THEN [kind |-> "InvalidIndexFormat"]
                  ELSE [kind |-> "Raised", error |-> n.error])
            ELSE IF ~InRange(blocks, n.value)
            THEN [kind |-> "IndexOutOfRange"]
            ELSE [kind |-> "Block", block_index |-> n.value]

\* the text returned instead of a block
ErrorText(kind) ==
    CASE kind = "NoBlocks" -> "Bloki subtitrov ne naydeny. Snachala obrabotayte video."
      [] kind = "InvalidIndexFormat" -> "Nevernyy indeks bloka. Dolzhno byt' tseloe chislo."
      [] kind = "IndexOutOfRange" -> "Oshibka: indeks bloka vne diapazona"
      [] OTHER -> ""

\* the preview of a block's text: its first 200 characters
Preview(content_text) ==
    IF Len(content_text) > 200 THEN SubSeq(content_text, 1, 200) \o "..." ELSE content_text

\* the summary display_toc_entry writes for a block
TocEntryContent(block) ==
    "## " \o block.title \o "\n\n"
        \o "**Nachalo:** " \o FormatTime(block.start_time)
        \o " | **Konets:** " \o FormatTime(block.end_time)
        \o " | **Dlitel'nost':** " \o FormatTime(block.end_time - block.start_time)
        \o "\n\n"
        \o (IF block.content_text # ""
            THEN "**Obzor soderzhimogo:**\n\n" \o Preview(block.content_text) \o "\n\n"
            ELSE "")
        \o (IF block.subtitles # <<>>
            THEN "**Kolichestvo subtitrov v bloke:** "
                 \o ToString(Len(block.subtitles)) \o "\n\n"
            ELSE "")
        \o "Nazhmite knopku 'Pokazat' soderzhimoe bloka' dlya prosmotra polnogo teksta."

\* one line of get_block_content per cue
CueLine(subtitle) ==
    "**[" \o FormatTime(subtitle.start) \o "]** " \o subtitle.text \o "\n\n"

\* the transcript with the block's text in place of its cues
BlockContentTextOnly(block) ==
    "## " \o block.title \o "\n\n"
        \o "**Vremennaya metka:** " \o FormatTime(block.start_time)
        \o " - " \o FormatTime(block.end_time) \o "\n\n"
        \o "### Soderzhanie:\n\n"
        \o block.content_text

\* the transcript get_block_content writes for a block
BlockContent(block) ==
    "## " \o block.title \o "\n\n"
        \o "**Vremennaya metka:** " \o FormatTime(block.start_time)
        \o " - " \o FormatTime(block.end_time) \o "\n\n"
        \o "### Soderzhanie:\n\n"
        \o (IF block.subtitles # <<>>
            THEN Join([k \in 1..Len(block.subtitles) |-> CueLine(block.subtitles[k])], "")
            ELSE block.content_text)

\* display_toc_entry(block_index) on the stored blocks: the returned text
\* with the kind of result it is
display_toc_entry(blocks, block_index) ==
    LET checked == CheckIndex(blocks, block_index)
    IN IF checked.kind = "Block"
       THEN [kind |-> "Block", block_index |-> checked.block_index,
             content |-> TocEntryContent(blocks[checked.block_index + 1])]
       ELSE IF checked.kind = "Raised" THEN checked
       ELSE [kind |-> checked.kind, content |-> ErrorText(checked.kind)]

\* get_block_content(block_index) on the stored blocks
get_block_content(blocks, block_index) ==
    LET checked == CheckIndex(blocks, block_index)
    IN IF checked.kind = "Block"
       THEN [kind |-> "Block", block_index |-> checked.block_index,
             content |-> BlockContent(blocks[checked.block_index + 1])]
       ELSE IF checked.kind = "Raised" THEN checked
       ELSE [kind |-> checked.kind, content |-> ErrorText(checked.kind)]

-----------------------------------------------------------------------------
(* The session as AppState.__init__ leaves it.                             *)

InitAppState ==
    /\ subtitles = <<>>
    /\ video_info = <<>>
    /\ subtitle_blocks = <<>>
    /\ table_of_contents = ""
    /\ vectordb = <<>>
    /\ qa_chain = <<>>
    /\ current_model = "huggingface"

-----------------------------------------------------------------------------
(* SpecSplit: the automatic splitter applied to every transcript of up to  *)
(* MaxCues cues.  A transcript starts at 0; each cue takes one of Steps,   *)
(* <<gap, duration>>: it starts gap seconds after the end of the cue       *)
(* before it and lasts duration seconds.                                   *)

MaxCues == 5

Steps == {<<0, 5>>, <<3, 5>>, <<10, 5>>, <<0, 2>>}

CueWords == <<"Hello", "world", "New topic", "topic", "just", "end.", "more", "more">>

Cue(start, duration, n) ==
    [start |-> start, duration |-> duration,
     text |-> CueWords[((n - 1) % Len(CueWords)) + 1]]

RECURSIVE CueSeqsOfLen(_)
CueSeqsOfLen(n) ==
    IF n = 0 THEN {<<>>}
    ELSE IF n = 1 THEN {<<Cue(0, st[2], 1)>> : st \in Steps}
    ELSE {Append(cs, Cue(EndOf(cs[n - 1]) + st[1], st[2], n)) :
              cs \in CueSeqsOfLen(n - 1), st \in Steps}

CueSeqs == UNION {CueSeqsOfLen(n) : n \in 0..MaxCues}

MinBlockDurations == {0, 10, DefaultMinBlockDuration}

PauseThresholds == {DefaultMinPauseThreshold, 10}

MaxBlockSizes == {2, DefaultMaxBlockSize}

SplitRequests ==
    [subtitles : CueSeqs,
     min_block_duration : MinBlockDurations,
     min_pause_threshold : PauseThresholds,
     max_block_size : MaxBlockSizes,
     nltk_ok : BOOLEAN]

InitSplit ==
    /\ pc = "ready"
    /\ request \in SplitRequests
    /\ response = <<>>
    /\ chapters = <<>>
    /\ queried = <<>>
    /\ InitAppState
    /\ disk = EmptyDisk

Split ==
    /\ pc = "ready"
    /\ response' = AnalyzeSubtitlesIntoBlocks(
                       request.subtitles, request.min_block_duration,
                       request.min_pause_threshold, request.max_block_size,
                       request.nltk_ok)
    /\ pc' = "done"
    /\ UNCHANGED <<request, chapters, queried, app_state, disk>>

NextSplit == Split

SpecSplit == InitSplit /\ [][NextSplit]_vars

-----------------------------------------------------------------------------
(* Properties of the automatic splitter, checked under SpecSplit.          *)

CueCount == Len(request.subtitles)

\* the gap between the end of cue i and the start of cue i + 1 of the input
GapAfter(i) ==
    request.subtitles[i + 1].start
        - (request.subtitles[i].start + request.subtitles[i].duration)

\* the cues of the blocks, block after block
RECURSIVE ConcatSubtitles(_)
ConcatSubtitles(blocks) ==
    IF blocks = <<>> THEN <<>>
    ELSE Head(blocks).subtitles \o ConcatSubtitles(Tail(blocks))

\* the number of cues in the first k blocks
RECURSIVE CuesThrough(_, _)
CuesThrough(blocks, k) ==
    IF k = 0 THEN 0 ELSE CuesThrough(blocks, k - 1) + Len(blocks[k].subtitles)

\* the cue numbers i at which a block ends and the next block starts
Boundaries(blocks) == {CuesThrough(blocks, k) : k \in 1..(Len(blocks) - 1)}

\* the block that holds cue i
BlockOf(blocks, i) ==
    CHOOSE k \in 1..Len(blocks) :
        CuesThrough(blocks, k - 1) < i /\ i <= CuesThrough(blocks, k)

\* C1: a transcript of fewer than 5 cues gives exactly one block, from the
\* first cue's start to the last cue's start + duration; an empty transcript
\* gives exactly one block spanning [0, 0].
C1_ShortTranscriptOneBlock ==
    (pc = "done" /\ CueCount < 5) =>
        /\ Len(response) = 1
        /\ response[1].start_time =
               (IF CueCount = 0 THEN 0 ELSE request.subtitles[1].start)
        /\ response[1].end_time =
               (IF CueCount = 0 THEN 0
                ELSE request.subtitles[CueCount].start
                         + request.subtitles[CueCount].duration)

\* a 4-cue transcript with a pause the loop would have split at, answered by
\* one block
C1_Witness ==
    /\ pc = "done"
    /\ CueCount = 4
    /\ request.min_block_duration = 0
    /\ \E i \in 1..3 : GapAfter(i) >= request.min_pause_threshold
    /\ Len(response) = 1
    /\ response[1].end_time = request.subtitles[4].start + request.subtitles[4].duration

\* the example of the specification: cues (0,5), (5,5), (20,5), a pause
\* threshold of 3 and a minimum block duration of at most 10
IsExample ==
    /\ pc = "done"
    /\ [k \in 1..CueCount |->
           <<request.subtitles[k].start, request.subtitles[k].duration>>]
          = <<<<0, 5>>, <<5, 5>>, <<20, 5>>>>
    /\ request.min_pause_threshold = 3
    /\ request.min_block_duration <= 10

\* C2 as stated: the example gives exactly two blocks, [0,10) holding cues 1
\* and 2 and [20,25) holding cue 3.
C2_ExampleTwoBlocks ==
    IsExample =>
        /\ Len(response) = 2
        /\ response[1].start_time = 0 /\ response[1].end_time = 10
        /\ response[1].subtitles = SubSeq(request.subtitles, 1, 2)
        /\ response[2].start_time = 20 /\ response[2].end_time = 25
        /\ response[2].subtitles = SubSeq(request.subtitles, 3, 3)

\* C2 amended: the example has fewer than 5 cues, so it gives exactly one
\* block, [0,25], holding all three cues.
C2_ExampleOneBlock ==
    IsExample =>
        /\ Len(response) = 1
        /\ response[1].start_time = 0 /\ response[1].end_time = 25
        /\ response[1].subtitles = request.subtitles

C2_Witness == IsExample /\ Len(response) = 1 /\ Len(response[1].subtitles) = 3

\* C3: the blocks are in non-decreasing start_time order and partition the
\* input: their subtitles, concatenated in block order, are exactly the
\* input cue sequence.
C3_BlocksPartitionInput ==
    pc = "done" =>
        /\ ConcatSubtitles(response) = request.subtitles
        /\ \A k \in 1..(Len(response) - 1) :
               response[k].start_time <= response[k + 1].start_time

\* several blocks, one of which swallowed a candidate that closed too short:
\* inside it a pause reaches the threshold
C3_Witness ==
    /\ pc = "done"
    /\ CueCount >= 5
    /\ Len(response) >= 2
    /\ \E k \in 1..Len(response) :
           \E j \in 1..(Len(response[k].subtitles) - 1) :
               response[k].subtitles[j + 1].start
                   - (response[k].subtitles[j].start + response[k].subtitles[j].duration)
                   >= request.min_pause_threshold

\* C4 as stated: a gap of exactly min_pause_threshold after cue i makes cue i
\* the last cue of one emitted block and cue i + 1 the first of the next.
C4_ExactPauseSplits ==
    pc = "done" =>
        \A i \in 1..(CueCount - 1) :
            GapAfter(i) = request.min_pause_threshold => i \in Boundaries(response)

\* C4 amended: for 5 or more cues, a gap of exactly min_pause_threshold after
\* cue i makes cue i the last cue of one emitted block and cue i + 1 the
\* first of the next whenever the candidate is long enough: cue i ends at
\* least min_block_duration after the start of the block that holds it.
C4_ExactPauseSplitsLongCandidate ==
    (pc = "done" /\ CueCount >= 5) =>
        \A i \in 1..(CueCount - 1) :
            ( /\ GapAfter(i) = request.min_pause_threshold
              /\ request.subtitles[i].start + request.subtitles[i].duration
                     - response[BlockOf(response, i)].start_time
                     >= request.min_block_duration )
            => i \in Boundaries(response)

\* a split made by a pause of exactly the threshold, not by the size cap
C4_Witness ==
    /\ pc = "done"
    /\ CueCount >= 5
    /\ request.min_block_duration > 0
    /\ \E i \in 1..(CueCount - 1) :
           /\ GapAfter(i) = request.min_pause_threshold
           /\ i \in Boundaries(response)
           /\ Len(response[BlockOf(response, i)].subtitles) < request.max_block_size

C21_NonLastBlocksLongEnough ==
    (pc = "done" /\ CueCount >= 5) =>
        /\ \A k \in 1..(Len(response) - 1) :
               response[k].end_time - response[k].start_time
                   >= request.min_block_duration
        /\ \A i \in 1..(CueCount - 1) :
               ( /\ \/ GapAfter(i) >= request.min_pause_threshold
                    \/ i - CuesThrough(response, BlockOf(response, i) - 1)
                           >= request.max_block_size
                 /\ request.subtitles[i].start + request.subtitles[i].duration
                        - response[BlockOf(response, i)].start_time
                        < request.min_block_duration )
               => BlockOf(response, i + 1) = BlockOf(response, i)

\* a candidate closed by a pause before the final cue, too short, that kept
\* accumulating, in a transcript that also gave a long enough earlier block
C21_Witness ==
    /\ pc = "done"
    /\ CueCount >= 5
    /\ request.min_block_duration > 0
    /\ Len(response) >= 2
    /\ \E i \in 2..(CueCount - 1) :
           /\ GapAfter(i) >= request.min_pause_threshold
           /\ i \notin Boundaries(response)
           /\ BlockOf(response, i) > 1

\* C22: for 5 or more cues the last cue closes and emits the accumulator
\* whatever its duration: the output is non-empty, the first block starts at
\* the first cue's start, the last block ends with the last cue, at the
\* last cue's start + duration.
C22_LastCueEmits ==
    (pc = "done" /\ CueCount >= 5) =>
        /\ Len(response) >= 1
        /\ response[1].start_time = request.subtitles[1].start
        /\ response[Len(response)].end_time =
               request.subtitles[CueCount].start
                   + request.subtitles[CueCount].duration
        /\ response[Len(response)].subtitles # <<>>
        /\ response[Len(response)].subtitles[Len(response[Len(response)].subtitles)]
               = request.subtitles[CueCount]

\* a last block shorter than min_block_duration, emitted after an earlier
\* block all the same
C22_Witness ==
    /\ pc = "done"
    /\ CueCount >= 5
    /\ Len(response) >= 2
    /\ response[Len(response)].end_time - response[Len(response)].start_time
           < request.min_block_duration
    /\ response[Len(response)].end_time =
           request.subtitles[CueCount].start + request.subtitles[CueCount].duration

-----------------------------------------------------------------------------
(* SpecTitle: the Title Generator applied to a batch of one or two blocks. *)
(* The text of the first block is any sequence of up to MaxWords words of  *)
(* TitleWords, blank-separated; a second block, if any, has no text.       *)

MaxWords == 6

TitleWords == {"?", "just", "topic", "state-of-the-art"}

RECURSIVE TextsOfWords(_)
TextsOfWords(n) ==
    IF n = 0 THEN {""}
    ELSE LET shorter == TextsOfWords(n - 1)
         IN shorter \cup {IF t = "" THEN w ELSE t \o " " \o w :
                              t \in shorter, w \in TitleWords}

BlockTexts == TextsOfWords(MaxWords)

\* a block as the splitter hands it to the Title Generator: no title yet
UntitledBlock(content_text) ==
    [start_time |-> 0, end_time |-> 0, subtitles |-> <<>>,
     content_text |-> content_text, title |-> ""]

TitleBatches ==
    {<<UntitledBlock(t)>> : t \in BlockTexts}
    \cup {<<UntitledBlock(t), UntitledBlock("")>> : t \in BlockTexts}

TitleRequests == [blocks : TitleBatches, nltk_ok : BOOLEAN]

InitTitle ==
    /\ pc = "ready"
    /\ request \in TitleRequests
    /\ response = <<>>
    /\ chapters = <<>>
    /\ queried = <<>>
    /\ InitAppState
    /\ disk = EmptyDisk

GenerateTitles ==
    /\ pc = "ready"
    /\ response' = GenerateBlockTitles(request.blocks, request.nltk_ok)
    /\ pc' = "done"
    /\ UNCHANGED <<request, chapters, queried, app_state, disk>>

NextTitle == GenerateTitles

SpecTitle == InitTitle /\ [][NextTitle]_vars

-----------------------------------------------------------------------------
(* Properties of the Title Generator, checked under SpecTitle.             *)

\* C6: every block the engine emits has a non-empty title of at most 70
\* characters, whatever the block's text (composed titles longer than that
\* being cut and given an ellipsis).  Stated for the run in which nltk's
\* tokenizers work, where titles are composed and cut.
C6_TitleNonEmptyAtMost70 ==
    pc = "done" /\ request.nltk_ok =>
        \A n \in 1..Len(response) :
            /\ response[n].title # ""
            /\ Len(response[n].title) <= 70

-----------------------------------------------------------------------------
(* SpecMethods: generate_block_titles called with each method name on      *)
(* batches of one or two untitled blocks.                                  *)

Methods == {"enhanced_keywords", "openai", "first_sentence", "simple"}

MethodTexts ==
    {"", "  ", "?", "Hello world. New topic", "just so", "topic topic end. more",
     "One two three four five six seven eight nine ten eleven twelve thirteen",
     "state-of-the-art state-of-the-art state-of-the-art state-of-the-art"}

MethodBatches ==
    {<<UntitledBlock(t)>> : t \in MethodTexts}
    \cup {<<UntitledBlock(t), UntitledBlock(u)>> : t \in MethodTexts, u \in MethodTexts}

MethodRequests == [blocks : MethodBatches, method : Methods, nltk_ok : BOOLEAN]

InitMethods ==
    /\ pc = "ready"
    /\ request \in MethodRequests
    /\ response = <<>>
    /\ chapters = <<>>
    /\ queried = <<>>
    /\ InitAppState
    /\ disk = EmptyDisk

GenerateTitlesByMethod ==
    /\ pc = "ready"
    /\ response' = generate_block_titles(request.blocks, request.method, request.nltk_ok)
    /\ pc' = "done"
    /\ UNCHANGED <<request, chapters, queried, app_state, disk>>

NextMethods == GenerateTitlesByMethod

SpecMethods == InitMethods /\ [][NextMethods]_vars

-----------------------------------------------------------------------------
(* Properties of the title strategies, checked under SpecMethods.          *)

\* C14: title generation is total for every method name (enhanced_keywords,
\* first_sentence, openai, simple or any other): generate_block_titles never
\* raises, and on return every block of the batch has a non-empty title.
C14_TitlesTotal ==
    pc = "done" =>
        /\ response.kind = "Returned"
        /\ \A n \in 1..Len(response.blocks) : response.blocks[n].title # ""

-----------------------------------------------------------------------------
(* SpecChapters: segmentation with chapters applied to transcripts of up   *)
(* to MaxChapterCues cues and to chapter lists of up to MaxChapters        *)
(* chapters, each source's chapters starting at any of ChapterStarts, in   *)
(* any order.                                                              *)

MaxChapterCues == 3

MaxChapters == 3

ChapterStarts == {0, 10, 100}

ChapterTitles == <<"Intro", "Main part", "Section three", "Outro">>

RECURSIVE ChapterDataOfLen(_)
ChapterDataOfLen(n) ==
    IF n = 0 THEN {<<>>}
    ELSE {Append(cd, [title |-> ChapterTitles[((n - 1) % Len(ChapterTitles)) + 1],
                      start_time |-> t]) :
              cd \in ChapterDataOfLen(n - 1), t \in ChapterStarts}

\* two chapters, at 0 and at 10
TwoChapters == {cd \in ChapterDataOfLen(2) : cd[1].start_time = 0 /\ cd[2].start_time = 10}

\* what the watch page holds
PageData == UNION {ChapterDataOfLen(n) : n \in 0..MaxChapters}

\* what the description holds
ApiData == {<<>>, <<[title |-> "Start", start_time |-> 0],
                    [title |-> "Rest", start_time |-> 5]>>}

\* how the request for the watch page goes: answered, with any chapter data,
\* or failed, the page holding two chapters
PageAnswers ==
    [status : {"ok"}, chapters_data : PageData]
    \cup [status : {"ConnectionError", "HTTP 404", "JSONDecodeError"},
          chapters_data : TwoChapters]

\* how the request to the Data API goes
ApiAnswers ==
    [status : {"ok"}, matches : ApiData]
    \cup [status : {"NoApiKey", "ConnectionError", "HTTP 403"}, matches : ApiData \ {<<>>}]

ChapterCueSeqs == UNION {CueSeqsOfLen(n) : n \in 0..MaxChapterCues}

\* the arguments, and what each source answers for the video: page_chapters
\* and api_chapters are what the two sources return
ChapterRequests ==
    {[subtitles |-> subs, page |-> page, api |-> api,
      page_chapters |-> get_youtube_chapters(page),
      api_chapters |-> get_youtube_video_chapters_api(api),
      min_block_duration |-> m, nltk_ok |-> TRUE] :
         subs \in ChapterCueSeqs, page \in PageAnswers, api \in ApiAnswers,
         m \in {10, DefaultMinBlockDuration}}

InitChapters ==
    /\ pc = "ready"
    /\ request \in ChapterRequests
    /\ response = <<>>
    /\ chapters = <<>>
    /\ queried = <<>>
    /\ InitAppState
    /\ disk = EmptyDisk

SplitWithChapters ==
    /\ pc = "ready"
    /\ response' = AnalyzeSubtitlesIntoBlocksWithChapters(
                       request.subtitles, request.page_chapters, request.api_chapters,
                       request.min_block_duration, request.nltk_ok)
    /\ chapters' = ReconciledChapters(request.subtitles, request.page_chapters,
                                      request.api_chapters)
    /\ queried' = QueriedSources(request.subtitles, request.page_chapters)
    /\ pc' = "done"
    /\ UNCHANGED <<request, app_state, disk>>

NextChapters == SplitWithChapters

SpecChapters == InitChapters /\ [][NextChapters]_vars

-----------------------------------------------------------------------------
(* Properties of chapter reconciliation, checked under SpecChapters.       *)

\* the chapters the request is to be served from: the page's when the page
\* source returned any, else the description's
RequestChapters ==
    IF request.page_chapters # <<>> THEN request.page_chapters ELSE request.api_chapters

\* C7: in chapter reconciliation a chapter whose end_time is missing gets the
\* next chapter's start_time, the final chapter the end of the final cue
\* (start + duration); a chapter that has an end_time keeps it.
C7_MissingEndTimeResolved ==
    (pc = "done" /\ request.subtitles # <<>>) =>
        /\ Len(chapters) = Len(RequestChapters)
        /\ \A i \in 1..Len(chapters) :
              /\ chapters[i].title = RequestChapters[i].title
              /\ chapters[i].start_time = RequestChapters[i].start_time
              /\ chapters[i].end_time =
                    IF RequestChapters[i].end_time # None
                    THEN RequestChapters[i].end_time
                    ELSE IF i < Len(chapters)
                    THEN RequestChapters[i + 1].start_time
                    ELSE EndOf(request.subtitles[Len(request.subtitles)])

\* three chapters showing the three cases: the first without end_time (the
\* page source leaves it out when the next chapter starts at 0) takes the
\* second's start, the second keeps its end_time, the last takes the end of
\* the final cue
C7_Witness ==
    /\ pc = "done"
    /\ Len(request.subtitles) = MaxChapterCues
    /\ Len(chapters) = 3
    /\ RequestChapters[1].end_time = None
    /\ chapters[1].end_time = chapters[2].start_time
    /\ RequestChapters[2].end_time # None
    /\ chapters[2].end_time = RequestChapters[2].end_time
    /\ RequestChapters[3].end_time = None
    /\ chapters[3].end_time = EndOf(request.subtitles[Len(request.subtitles)])
    /\ chapters[3].end_time > chapters[3].start_time

\* the block was made from one of the chapters chs
FromChapter(block, chs) ==
    \E i \in 1..Len(chs) :
        /\ block.title = chs[i].title
        /\ block.start_time = chs[i].start_time

\* the page source is called first, the Data API only if it returned nothing
QueriedInOrder ==
    queried = IF request.page_chapters # <<>>
              THEN <<"get_youtube_chapters">>
              ELSE <<"get_youtube_chapters", "get_youtube_video_chapters_api">>

\* every block comes from a chapter of the source preferred
OnlyChapterBlocks == \A n \in 1..Len(response) : FromChapter(response[n], RequestChapters)

\* the blocks are those of the automatic splitter for the same cues and the
\* same min_block_duration
SplitterBlocks ==
    response = AnalyzeSubtitlesIntoBlocks(
                   request.subtitles, request.min_block_duration,
                   DefaultMinPauseThreshold, DefaultMaxBlockSize, request.nltk_ok)

\* C11 as stated: segmentation with chapters queries the
\* page source first and the API source only when the page source returns
\* nothing; when either returns a chapter every block of the result is made
\* from a chapter, and when both return nothing the result is the automatic
\* splitter's for the same cues and min_block_duration.
C11_ChaptersPreferred ==
    pc = "done" =>
        /\ QueriedInOrder
        /\ RequestChapters # <<>> => OnlyChapterBlocks
        /\ RequestChapters = <<>> => SplitterBlocks

\* C11, amended: the above for a transcript that has cues; for an empty
\* transcript no source is queried and the result is the empty list.
C11_ChaptersPreferredForCues ==
    pc = "done" =>
        IF request.subtitles = <<>>
        THEN queried = <<>> /\ response = <<>>
        ELSE /\ QueriedInOrder
             /\ RequestChapters # <<>> => OnlyChapterBlocks
             /\ RequestChapters = <<>> => SplitterBlocks

\* the page returned nothing, the description two chapters: both sources
\* were called and the blocks are the description's chapters
C11_Witness ==
    /\ pc = "done"
    /\ request.subtitles # <<>>
    /\ request.page_chapters = <<>>
    /\ Len(request.api_chapters) = 2
    /\ queried = <<"get_youtube_chapters", "get_youtube_video_chapters_api">>
    /\ Len(response) = 2
    /\ response[1].title = "Start"
    /\ response[2].title = "Rest"

\* the call made blocks from chapters
MadeChapterBlocks == pc = "done" /\ request.subtitles # <<>> /\ RequestChapters # <<>>

\* the cues of the request starting in [lo, hi), in the request's order
CuesStartingIn(lo, hi) ==
    SelectSeq(request.subtitles, LAMBDA cue : lo <= cue.start /\ cue.start < hi)

\* C12: the subtitles of every chapter-derived block are exactly the input
\* cues, in input order, that start at or after the block's start_time and
\* before its end_time.
C12_ChapterCuesHalfOpen ==
    MadeChapterBlocks =>
        \A n \in 1..Len(response) :
            response[n].subtitles =
                CuesStartingIn(response[n].start_time, response[n].end_time)

\* a block holding cues, and a cue that starts at the very second the block
\* ends and is not among them
C12_Witness ==
    /\ MadeChapterBlocks
    /\ \E n \in 1..Len(response), i \in 1..Len(request.subtitles) :
          /\ response[n].subtitles # <<>>
          /\ request.subtitles[i].start = response[n].end_time
          /\ \A k \in 1..Len(response[n].subtitles) :
                response[n].subtitles[k].start < response[n].end_time

\* chapter i of the reconciled list is to yield a block: it has a cue, or it
\* lasts at least min_block_duration
Retained(i) ==
    \/ CuesStartingIn(chapters[i].start_time, chapters[i].end_time) # <<>>
    \/ chapters[i].end_time - chapters[i].start_time >= request.min_block_duration

RetainedChapters == {i \in 1..Len(chapters) : Retained(i)}

\* the n-th retained chapter, counting in the chapters' order
NthRetained(n) ==
    CHOOSE i \in RetainedChapters : Cardinality({j \in RetainedChapters : j <= i}) = n

\* C13: in chapter reconciliation a chapter yields a block if and only if it
\* has at least one matching cue or its duration is at least
\* min_block_duration; a chapter with no cue and a shorter duration yields
\* none, and the blocks keep the chapters' order.
C13_ChapterRetained ==
    MadeChapterBlocks =>
        /\ Len(response) = Cardinality(RetainedChapters)
        /\ \A n \in 1..Len(response) :
              /\ response[n].title = chapters[NthRetained(n)].title
              /\ response[n].start_time = chapters[NthRetained(n)].start_time
              /\ response[n].end_time = chapters[NthRetained(n)].end_time

\* three chapters: the first has a cue, the second has none and lasts long
\* enough, the third has none and does not; the first two yield the blocks
C13_Witness ==
    /\ MadeChapterBlocks
    /\ Len(chapters) = 3
    /\ Len(response) = 2
    /\ response[1].subtitles # <<>>
    /\ response[2].subtitles = <<>>
    /\ response[2].title = chapters[2].title
    /\ response[2].end_time - response[2].start_time >= request.min_block_duration
    /\ ~Retained(3)

\* the request to a source failed
PageFailed == request.page.status # "ok"

ApiFailed == request.api.status # "ok"

\* C16: a failure inside a chapter source (connection error, a status other
\* than 200, unparsable data, no API key) does not reach the engine: the
\* source returns the empty list, and when both sources fail the result is
\* the block list made when the video has no chapters, complete and titled.
C16_SourceFailureFallsBack ==
    pc = "done" =>
        /\ PageFailed => request.page_chapters = <<>>
        /\ ApiFailed => request.api_chapters = <<>>
        /\ (PageFailed /\ ApiFailed) =>
              /\ response = AnalyzeSubtitlesIntoBlocksWithChapters(
                                request.subtitles, <<>>, <<>>,
                                request.min_block_duration, request.nltk_ok)
              /\ ConcatSubtitles(response) = request.subtitles
              /\ \A n \in 1..Len(response) : response[n].title # ""

\* both requests failed for a video that has chapters in its page and in its
\* description, and the transcript came back as a titled block
C16_Witness ==
    /\ pc = "done"
    /\ PageFailed
    /\ ApiFailed
    /\ request.page.chapters_data # <<>>
    /\ request.api.matches # <<>>
    /\ Len(request.subtitles) = MaxChapterCues
    /\ queried = <<"get_youtube_chapters", "get_youtube_video_chapters_api">>
    /\ Len(response) = 1
    /\ response[1].subtitles = request.subtitles
    /\ response[1].title # ""

-----------------------------------------------------------------------------
(* Spec: the session.  The functions the UI's callbacks call run one at a  *)
(* time on the shared app_state: process_video, load_database_from_list    *)
(* and the two block lookups.  YouTube answers a request for a video with  *)
(* any video of Videos that has the requested id, or fails; the disk holds *)
(* what earlier runs saved.                                                *)

\* the cues made by a sequence of <<gap, duration>> steps, the first at 0
RECURSIVE CuesOf(_)
CuesOf(steps) ==
    IF steps = <<>> THEN <<>>
    ELSE LET n == Len(steps)
             cs == CuesOf(SubSeq(steps, 1, n - 1))
         IN Append(cs, Cue(IF cs = <<>> THEN 0 ELSE EndOf(cs[n - 1]) + steps[n][1],
                           steps[n][2], n))

\* four cues back to back, 0..20: fewer than the splitter needs
ShortTranscript == CuesOf(<<<<0, 5>>, <<0, 5>>, <<0, 5>>, <<0, 5>>>>)

\* six cues 10 seconds apart, 0..80: the splitter cuts after the fifth
LongTranscript ==
    CuesOf(<<<<10, 5>>, <<10, 5>>, <<10, 5>>, <<10, 5>>, <<10, 5>>, <<10, 5>>>>)

\* what the two chapter sources hold for a video: nothing, chapters in the
\* page, or chapters in the description only
SessionChapterData ==
    {<<page, <<>>>> : page \in {<<>>} \cup TwoChapters}
    \cup {<<<<>>, m>> : m \in ApiData}

\* the same cues spoken with other words
Retold(subs) == [k \in 1..Len(subs) |-> [subs[k] EXCEPT !.text = @ \o " again"]]

\* the transcripts YouTube may hold for a video: no two videos share a cue
TranscriptsOf(video_id) ==
    IF video_id = "AAAAAAAAAAA" THEN {ShortTranscript, LongTranscript}
    ELSE {Retold(ShortTranscript), Retold(LongTranscript)}

Videos ==
    UNION {{[video_id |-> id, subtitles |-> subs,
             page_chapters |-> GetYoutubeChapters(cd[1]),
             api_chapters |-> GetYoutubeVideoChaptersApi(cd[2])] :
                subs \in TranscriptsOf(id), cd \in SessionChapterData} :
           id \in VideoIds}

UrlPrefix == "https://youtu.be/"

Urls == {UrlPrefix \o id : id \in VideoIds} \cup {"not a url"}

\* extract_video_id, on the URLs of the model: the 11 characters after the
\* prefix, or nothing (None, written "")
extract_video_id(youtube_url) ==
    IF StartsWith(youtube_url, UrlPrefix) /\ Len(youtube_url) >= Len(UrlPrefix) + 11
    THEN SubSeq(youtube_url, Len(UrlPrefix) + 1, Len(UrlPrefix) + 11)
    ELSE ""

\* result["video_info"] of get_youtube_subtitles for a video found; url,
\* author, thumbnail and the language details are carried along untouched
\* and left out
FetchedVideoInfo(v) ==
    LET found == FoundChapters(v.page_chapters, v.api_chapters)
        info == [video_id |-> v.video_id, title |-> "Title of " \o v.video_id,
                 language |-> "en"]
    IN IF found # <<>>
       THEN ("chapters" :> found) @@ ("has_chapters" :> TRUE) @@ info
       ELSE info

\* a vector database opened on the collection of a video
Collection(video_id) == [collection_name |-> "video_" \o video_id]

\* setup_qa_chain(vectordb, "huggingface")
QaChain(db) == [vectordb |-> db, model_name |-> "huggingface"]

\* what a handler returns when an exception reaches its except clause
Failed(error) == [kind |-> "Error", error |-> error]

\* the blocks of every video of the model, with nltk working and failing
BlocksOfVideos ==
    [v \in Videos |->
        [nltk_ok \in BOOLEAN |->
            SegmentedBlocks(v.subtitles, v.video_id # "", v.page_chapters,
                            v.api_chapters, nltk_ok)]]

\* the blocks process_subtitles_with_blocks stores for a fetched video
VideoBlocks(v, nltk_ok) == BlocksOfVideos[v][nltk_ok]

\* what an earlier run saved for a video: its documents and metadata.json
\* (created_at added on saving); metadata <<>> is a missing or unreadable file
SavedCollection(v, with_metadata) ==
    [documents |-> process_subtitles_to_documents(v.subtitles),
     metadata |->
        IF with_metadata
        THEN ("created_at" :> "2024-01-01T00:00:00")
             @@ WithBlocksMetadata(FetchedVideoInfo(v), VideoBlocks(v, TRUE))
        ELSE <<>>]

\* the video saved: the short transcript with two page chapters
SavedVideo ==
    CHOOSE v \in Videos :
        /\ v.video_id = "AAAAAAAAAAA"
        /\ v.subtitles = ShortTranscript
        /\ Len(v.page_chapters) = 2

\* the disk: nothing saved, or one video saved with or without its metadata
Disks ==
    {EmptyDisk}
    \cup {[id \in VideoIds |->
              IF id = SavedVideo.video_id
              THEN SavedCollection(SavedVideo, with_metadata) ELSE NotSaved] :
          with_metadata \in BOOLEAN}

Init ==
    /\ pc = "idle"
    /\ request = <<>>
    /\ response = <<>>
    /\ chapters = <<>>
    /\ queried = <<>>
    /\ InitAppState
    /\ disk \in Disks

\* process_subtitles_with_blocks(subtitles, video_info) for the video fetched:
\* the session's blocks, table of contents and video_info after it.  Saving
\* the metadata fails (blocks.py does not import save_video_metadata; the
\* NameError is caught and logged), so the disk stays as it is.
process_subtitles_with_blocks(v, nltk_ok) ==
    /\ subtitle_blocks' = VideoBlocks(v, nltk_ok)
    /\ table_of_contents' = generate_table_of_contents(subtitle_blocks')
    /\ video_info' = IF v.video_id # ""
                     THEN WithBlocksMetadata(FetchedVideoInfo(v), subtitle_blocks')
                     ELSE FetchedVideoInfo(v)
    /\ chapters' = IF v.video_id # ""
                   THEN ReconciledChapters(v.subtitles, v.page_chapters, v.api_chapters)
                   ELSE <<>>
    /\ queried' = IF v.video_id # ""
                  THEN QueriedSources(v.subtitles, v.page_chapters)
                  ELSE <<>>

\* process_video(youtube_url): an invalid URL is refused
ProcessVideoInvalidUrl ==
    \E youtube_url \in Urls :
        /\ extract_video_id(youtube_url) = ""
        /\ request' = [op |-> "process_video", youtube_url |-> youtube_url]
        /\ response' = [kind |-> "InvalidUrl"]
        /\ UNCHANGED <<pc, chapters, queried, app_state, disk>>

\* process_video(youtube_url): the subtitles cannot be fetched; a collection
\* found for the video has already replaced the session's by then
ProcessVideoNoSubtitles ==
    \E youtube_url \in Urls :
        LET video_id == extract_video_id(youtube_url)
        IN /\ video_id # ""
           /\ request' = [op |-> "process_video", youtube_url |-> youtube_url]
           /\ vectordb' = IF disk[video_id] # NotSaved /\ disk[video_id].documents # <<>>
                          THEN Collection(video_id) ELSE vectordb
           /\ response' = [kind |-> "NoSubtitles"]
           /\ UNCHANGED <<pc, chapters, queried, subtitles, video_info, subtitle_blocks,
                          table_of_contents, qa_chain, current_model, disk>>

\* process_video(youtube_url): the subtitles are fetched and segmented.  For a
\* video with a saved collection the chain is rebuilt on it (qa_ok: whether
\* setup_qa_chain succeeds) and formatting the answer then fails; for a new
\* video the step after segmentation fails.  Both times the name the handler
\* calls is not defined in interface.py, and the handler reports the error.
ProcessVideoFetched ==
    \E youtube_url \in Urls, v \in Videos, nltk_ok \in BOOLEAN, qa_ok \in BOOLEAN :
        LET video_id == extract_video_id(youtube_url)
            existing_db == disk[video_id] # NotSaved /\ disk[video_id].documents # <<>>
        IN /\ video_id # ""
           /\ v.video_id = video_id
           /\ existing_db \/ qa_ok
           /\ request' = [op |-> "process_video", youtube_url |-> youtube_url]
           /\ subtitles' = v.subtitles
           /\ process_subtitles_with_blocks(v, nltk_ok)
           /\ vectordb' = IF existing_db THEN Collection(video_id) ELSE vectordb
           /\ qa_chain' = IF existing_db /\ qa_ok THEN QaChain(vectordb') ELSE qa_chain
           /\ response' = IF ~existing_db
                          THEN Failed("NameError: process_subtitles_to_documents")
                          ELSE IF qa_ok THEN Failed("NameError: format_subtitles")
                          ELSE Failed("setup_qa_chain")
           /\ UNCHANGED <<pc, current_model, disk>>

\* load_database_from_list(db_info): no id given, or nothing saved for it
LoadDatabaseNotFound ==
    \E video_id \in VideoIds \cup {""} :
        /\ IF video_id = "" THEN TRUE ELSE disk[video_id] = NotSaved
        /\ request' = [op |-> "load_database_from_list", db_info |-> video_id]
        /\ response' = [kind |-> IF video_id = "" THEN "InvalidId" ELSE "NotLoaded"]
        /\ UNCHANGED <<pc, chapters, queried, app_state, disk>>

\* load_database_from_list(db_info): the saved collection is opened and the
\* session's cues rebuilt from its documents (search_ok: whether the search
\* succeeds).  With saved blocks the blocks are restored and making the table
\* of contents then fails; without, the chain is rebuilt and formatting the
\* answer fails.  Both names are not defined in interface.py.
LoadDatabaseFromList ==
    \E video_id \in VideoIds, search_ok \in BOOLEAN, qa_ok \in BOOLEAN :
        /\ disk[video_id] # NotSaved
        /\ request' = [op |-> "load_database_from_list", db_info |-> video_id]
        /\ vectordb' = Collection(video_id)
        /\ video_info' = IF disk[video_id].metadata # <<>> THEN disk[video_id].metadata
                         ELSE DefaultVideoInfo(video_id)
        /\ subtitles' = IF search_ok THEN RestoredSubtitles(disk[video_id].documents)
                        ELSE <<>>
        /\ IF "blocks" \in DOMAIN video_info'
           THEN /\ subtitle_blocks' = RestoreBlocks(video_info'.blocks, subtitles')
                /\ response' = Failed("NameError: generate_table_of_contents")
                /\ UNCHANGED qa_chain
           ELSE /\ qa_chain' = IF qa_ok THEN QaChain(vectordb') ELSE qa_chain
                /\ response' = IF qa_ok THEN Failed("NameError: format_subtitles")
                               ELSE Failed("setup_qa_chain")
                /\ UNCHANGED subtitle_blocks
        /\ UNCHANGED <<pc, chapters, queried, table_of_contents, current_model, disk>>

\* the indices a caller passes
Indices ==
    {IntIndex(n) : n \in -1..2}
    \cup {StrIndex(str) : str \in {"abc", " 1", "1.5"}}
    \cup {FloatIndex(3), InfIndex, NoneIndex}

DisplayTocEntry ==
    \E block_index \in Indices :
        /\ request' = [op |-> "display_toc_entry", block_index |-> block_index]
        /\ response' = display_toc_entry(subtitle_blocks, block_index)
        /\ UNCHANGED <<pc, chapters, queried, app_state, disk>>

GetBlockContent ==
    \E block_index \in Indices :
        /\ request' = [op |-> "get_block_content", block_index |-> block_index]
        /\ response' = get_block_content(subtitle_blocks, block_index)
        /\ UNCHANGED <<pc, chapters, queried, app_state, disk>>

Next ==
    \/ ProcessVideoInvalidUrl
    \/ ProcessVideoNoSubtitles
    \/ ProcessVideoFetched
    \/ LoadDatabaseNotFound
    \/ LoadDatabaseFromList
    \/ DisplayTocEntry
    \/ GetBlockContent

Spec == Init /\ [][Next]_vars

-----------------------------------------------------------------------------
(* Properties of the session, checked under Spec.                          *)

\* the last call was a block lookup
IsLookup == request # <<>> /\ request.op \in {"display_toc_entry", "get_block_content"}

\* the last call was a process_video that fetched and segmented a video
IsProcessed ==
    request # <<>> /\ request.op = "process_video" /\ response.kind = "Error"

\* the index is an integer: an int, a str that spells one, or a float
\* without a fractional part
IsInteger(block_index) ==
    CASE block_index.type = "int" -> TRUE
      [] block_index.type = "str" -> IntOfStr(block_index.str).ok
      [] block_index.type = "float" ->
            "twice" \in DOMAIN block_index /\ block_index.twice % 2 = 0
      [] OTHER -> FALSE

\* C8: a block lookup (display_toc_entry, get_block_content) returns the
\* InvalidIndexFormat error for every non-integer index and the
\* IndexOutOfRange error for every integer index outside [0, len(blocks)-1];
\* it never raises and never returns a block for such an index.  Stated for a
\* session that holds blocks.
C8_LookupErrors ==
    (IsLookup /\ subtitle_blocks # <<>>) =>
        /\ ~IsInteger(request.block_index) => response.kind = "InvalidIndexFormat"
        /\ (IsInteger(request.block_index)
            /\ ~InRange(subtitle_blocks, int(request.block_index).value))
               => response.kind = "IndexOutOfRange"

\* C9: saving the per-block records (start_time, end_time, title,
\* is_youtube_chapter) of the blocks the engine produced and rebuilding the
\* blocks from them by filtering the original transcript gives every block
\* the content_text it had.
C9_RoundTrip ==
    IsProcessed =>
        LET reloaded == RestoreBlocks(video_info.blocks, subtitles)
        IN /\ Len(reloaded) = Len(subtitle_blocks)
           /\ \A i \in 1..Len(reloaded) :
                 reloaded[i].content_text = subtitle_blocks[i].content_text

\* C10: a block's is_youtube_chapter flag is true exactly when the block came
\* from the chapters: after a video is processed, every stored block and every
\* record of video_info["blocks"] carries true if chapters were found for the
\* video, false if the automatic splitter made the blocks.
C10_ChapterFlag ==
    IsProcessed =>
        /\ \A i \in 1..Len(subtitle_blocks) :
              GetIsYoutubeChapter(subtitle_blocks[i]) = (chapters # <<>>)
        /\ \A i \in 1..Len(video_info.blocks) :
              video_info.blocks[i].is_youtube_chapter = (chapters # <<>>)

\* the last call was a process_video
IsProcessVideo == request # <<>> /\ request.op = "process_video"

\* every field of the session is that of the video with this id
SessionOf(video_id) ==
    /\ video_info # <<>>
    /\ video_info.video_id = video_id
    /\ vectordb = Collection(video_id)
    /\ qa_chain = QaChain(Collection(video_id))
    /\ table_of_contents = generate_table_of_contents(subtitle_blocks)
    /\ \E v \in Videos, nltk_ok \in BOOLEAN :
          /\ v.video_id = video_id
          /\ subtitles = v.subtitles
          /\ subtitle_blocks = VideoBlocks(v, nltk_ok)

\* C15: reprocessing replaces the session atomically: a process_video call
\* that succeeds leaves every session field (subtitles, video_info, blocks,
\* table of contents, vector index, QA chain) that of the new video, and a
\* call that fails at any step leaves every field as it was.
C15_AtomicReplacement ==
    [][IsProcessVideo' =>
          IF response'.kind = "Processed"
          THEN SessionOf(extract_video_id(request.youtube_url))'
          ELSE app_state' = app_state]_vars

\* the last call was a load_database_from_list that found a saved collection
IsReload ==
    /\ request # <<>>
    /\ request.op = "load_database_from_list"
    /\ request.db_info # ""
    /\ disk[request.db_info] # NotSaved

\* the collection reloaded has no readable metadata.json
MetadataMissing == disk[request.db_info].metadata = <<>>

\* the reload took the default video info
TookDefaultInfo == video_info = DefaultVideoInfo(request.db_info)

\* C17: on reload a missing or corrupt metadata file counts as no metadata:
\* load_database_by_id returns the default video info (video_id, placeholder
\* title, language "unknown") and the reload completes, no block being
\* restored from metadata.
C17_MissingMetadataReload ==
    (IsReload /\ MetadataMissing) =>
        /\ TookDefaultInfo
        /\ "blocks" \notin DOMAIN video_info
        /\ response.kind # "Error"

\* C18: once an operation has stored a block collection, the stored table
\* of contents is generate_table_of_contents of the stored blocks, after any
\* sequence of process_video and reload calls: the table is made anew with
\* every change of the blocks and never changes apart from them.
C18_TocMatchesBlocks ==
    subtitle_blocks # <<>> =>
        table_of_contents = generate_table_of_contents(subtitle_blocks)

\* the last call was get_block_content with a valid index: an integer within
\* the stored blocks
IsValidContentLookup ==
    /\ request # <<>>
    /\ request.op = "get_block_content"
    /\ subtitle_blocks # <<>>
    /\ IsInteger(request.block_index)
    /\ InRange(subtitle_blocks, int(request.block_index).value)

\* the block the request names
RequestedBlock == subtitle_blocks[int(request.block_index).value + 1]

\* one line per cue, stamped HH:MM:SS, in the cues' order
RECURSIVE StampedLines(_)
StampedLines(cues) ==
    IF cues = <<>> THEN ""
    ELSE "**[" \o FormatTime(Head(cues).start) \o "]** " \o Head(cues).text \o "\n\n"
         \o StampedLines(Tail(cues))

EndsWith(s, suffix) ==
    Len(s) >= Len(suffix) /\ SubSeq(s, Len(s) - Len(suffix) + 1, Len(s)) = suffix

\* C19: for every valid index get_block_content returns the requested block
\* and no other: under the block's title, one timestamped line per cue of the
\* block in cue order when the block holds cues, the block's content_text
\* when it holds none.
C19_BlockContentPerCue ==
    IsValidContentLookup =>
        /\ response.kind = "Block"
        /\ response.block_index = int(request.block_index).value
        /\ StartsWith(response.content, "## " \o RequestedBlock.title \o "\n\n")
        /\ EndsWith(response.content,
                    "### Soderzhanie:\n\n"
                        \o (IF RequestedBlock.subtitles # <<>>
                            THEN StampedLines(RequestedBlock.subtitles)
                            ELSE RequestedBlock.content_text))

\* the second of two blocks asked for, and its cues returned line by line
C19_Witness ==
    /\ IsValidContentLookup
    /\ int(request.block_index).value = 1
    /\ Len(RequestedBlock.subtitles) >= 2
    /\ RequestedBlock.title # subtitle_blocks[1].title
    /\ response.kind = "Block"
    /\ EndsWith(response.content, StampedLines(RequestedBlock.subtitles))

\* the cues of a sequence, as a set
CueSet(subs) == {subs[k] : k \in 1..Len(subs)}

\* the cues of a video: those of the transcripts YouTube holds for it and
\* those rebuilt from its saved collection
CuesOfVideo(video_id) ==
    UNION {CueSet(v.subtitles) : v \in {w \in Videos : w.video_id = video_id}}
    \cup (IF disk[video_id] # NotSaved
          THEN CueSet(RestoredSubtitles(disk[video_id].documents))
          ELSE {})

-----------------------------------------------------------------------------
(* SpecPipeline: process_subtitles_with_blocks applied to one transcript,  *)
(* for every answer of the two chapter sources, with and without a         *)
(* video_id in video_info.                                                 *)

\* the arguments: a transcript, a video_info with or without a video_id, and
\* what the two chapter sources answer; min_block_duration is left at its
\* default by the call
\* cues at the edge of what a transcript may hold: a duration of 0, a text
\* that is empty or has a space at an end; a gap of 60 lets the default
\* min_block_duration be reached
EdgeSteps == {<<0, 0>>, <<0, 5>>, <<60, 0>>, <<60, 5>>}

EdgeWords == <<"", "Hello", "world ", " New topic", "">>

EdgeCue(start, duration, n) ==
    [start |-> start, duration |-> duration,
     text |-> EdgeWords[((n - 1) % Len(EdgeWords)) + 1]]

RECURSIVE EdgeCueSeqsOfLen(_)
EdgeCueSeqsOfLen(n) ==
    IF n = 0 THEN {<<>>}
    ELSE IF n = 1 THEN {<<EdgeCue(0, st[2], 1)>> : st \in EdgeSteps}
    ELSE {Append(cs, EdgeCue(EndOf(cs[n - 1]) + st[1], st[2], n)) :
              cs \in EdgeCueSeqsOfLen(n - 1), st \in EdgeSteps}

\* transcripts of such cues, too short for the splitter and just long enough
EdgeCueSeqs == EdgeCueSeqsOfLen(2) \cup EdgeCueSeqsOfLen(MinSubtitles)

\* such a transcript, of a video without chapters or with two in its page
EdgeRequests ==
    {[subtitles |-> subs, page |-> page, api |-> [status |-> "ok", matches |-> <<>>],
      page_chapters |-> get_youtube_chapters(page),
      api_chapters |-> <<>>,
      min_block_duration |-> DefaultMinBlockDuration, nltk_ok |-> TRUE] :
         subs \in EdgeCueSeqs,
         page \in [status : {"ok"}, chapters_data : {<<>>} \cup TwoChapters]}

\* a transcript of the chapter requests, with any answer of the page source
\* and a Data API that answers, with or without chapters
SourceRequests ==
    {[subtitles |-> subs, page |-> page, api |-> api,
      page_chapters |-> get_youtube_chapters(page),
      api_chapters |-> get_youtube_video_chapters_api(api),
      min_block_duration |-> DefaultMinBlockDuration, nltk_ok |-> TRUE] :
         subs \in ChapterCueSeqs, page \in PageAnswers,
         api \in [status : {"ok"}, matches : ApiData]}

PipelineRequests ==
    {("video_id" :> id) @@ r :
        r \in SourceRequests \cup EdgeRequests, id \in {"", "AAAAAAAAAAA"}}

InitPipeline ==
    /\ pc = "ready"
    /\ request \in PipelineRequests
    /\ response = <<>>
    /\ chapters = <<>>
    /\ queried = <<>>
    /\ InitAppState
    /\ disk = EmptyDisk

\* process_subtitles_with_blocks(subtitles, video_info): the blocks and the
\* table of contents are stored in the session and returned.  With a
\* video_id the blocks' metadata is put into video_info; saving it fails
\* (save_video_metadata is not a name of blocks.py; the NameError is caught
\* and logged), so the disk stays as it is.
ProcessSubtitlesWithBlocks ==
    /\ pc = "ready"
    /\ subtitle_blocks' =
           SegmentedBlocks(request.subtitles, request.video_id # "",
                           request.page_chapters, request.api_chapters, request.nltk_ok)
    /\ table_of_contents' = generate_table_of_contents(subtitle_blocks')
    /\ video_info' = IF request.video_id # ""
                     THEN WithBlocksMetadata([video_id |-> request.video_id],
                                             subtitle_blocks')
                     ELSE [video_id |-> ""]
    /\ chapters' = IF request.video_id # ""
                   THEN ReconciledChapters(request.subtitles, request.page_chapters,
                                           request.api_chapters)
                   ELSE <<>>
    /\ queried' = IF request.video_id # ""
                  THEN QueriedSources(request.subtitles, request.page_chapters)
                  ELSE <<>>
    /\ response' = <<subtitle_blocks', table_of_contents'>>
    /\ pc' = "done"
    /\ UNCHANGED <<request, subtitles, vectordb, qa_chain, current_model, disk>>

NextPipeline == ProcessSubtitlesWithBlocks

SpecPipeline == InitPipeline /\ [][NextPipeline]_vars

-----------------------------------------------------------------------------
(* Properties of process_subtitles_with_blocks, checked under SpecPipeline. *)

\* the call took the chapter path and made its blocks from chapters
PipelineMadeChapterBlocks ==
    /\ pc = "done"
    /\ request.video_id # ""
    /\ request.subtitles # <<>>
    /\ RequestChapters # <<>>

\* C23: after process_subtitles_with_blocks the title of every block made
\* from a chapter is that chapter's title, whatever the title string.
C23_ChapterTitlesKept ==
    PipelineMadeChapterBlocks =>
        /\ Len(subtitle_blocks) = Cardinality(RetainedChapters)
        /\ \A n \in 1..Len(subtitle_blocks) :
              subtitle_blocks[n].title = chapters[NthRetained(n)].title

\* C24: every block made by the splitter for 5 or more cues, and every block
\* made from a chapter, has end_time > start_time, for cues ordered by start
\* with durations >= 0; only the single block of the fallback for fewer
\* than 5 cues may have end_time = start_time.
C24_BlocksEndAfterStart ==
    (pc = "done" /\ (CueCount >= 5 \/ PipelineMadeChapterBlocks)) =>
        \A k \in 1..Len(subtitle_blocks) :
            subtitle_blocks[k].end_time > subtitle_blocks[k].start_time

\* the space-joined concatenation of the texts of the block's own cues
JoinedTexts(block) == Join(Texts(block.subtitles), " ")

\* the blocks were emitted by the splitter's loop: no chapter was used and
\* the transcript has 5 or more cues
FromSplitLoop == pc = "done" /\ CueCount >= 5 /\ ~PipelineMadeChapterBlocks

C27_BlocksMetadataPersisted ==
    (pc = "done" /\ request.video_id # "") =>
        /\ disk[request.video_id] # NotSaved
        /\ disk[request.video_id].metadata # <<>>
        /\ "blocks" \in DOMAIN disk[request.video_id].metadata
        /\ disk[request.video_id].metadata.blocks = BlocksMetadata(subtitle_blocks)

\* the reconciled chapters are ordered and contiguous, each ending where the
\* next starts and the last at the end of the video, and the first starts
\* at or before the first cue
ChaptersCoverVideo ==
    /\ PipelineMadeChapterBlocks
    /\ \A i \in 1..(Len(chapters) - 1) :
          /\ chapters[i].start_time <= chapters[i + 1].start_time
          /\ chapters[i].end_time = chapters[i + 1].start_time
    /\ chapters[Len(chapters)].end_time = VideoEndTime(request.subtitles)
    /\ chapters[1].start_time <= request.subtitles[1].start

\* every cue of the request is among the subtitles of exactly one block
EveryCueInOneBlock ==
    /\ \A i \in 1..CueCount :
          Cardinality({k \in 1..Len(subtitle_blocks) :
                          \E j \in 1..Len(subtitle_blocks[k].subtitles) :
                              subtitle_blocks[k].subtitles[j] = request.subtitles[i]}) = 1
    /\ ConcatSubtitles(subtitle_blocks) = request.subtitles

\* C28 as stated: when the chapters are ordered and contiguous, the last
\* resolved to the end of the video, and the first starts at or before the
\* first cue, every input cue belongs to exactly one block made from a
\* chapter, for all cue sequences with durations >= 0.
C28_ChaptersCoverEveryCue == ChaptersCoverVideo => EveryCueInOneBlock

\* C28 amended: the same when the last cue has a duration above 0, so that
\* the video ends after the last cue starts.
C28_ChaptersCoverEveryCueBeforeEnd ==
    (ChaptersCoverVideo /\ request.subtitles[CueCount].duration > 0)
        => EveryCueInOneBlock

\* two blocks made from two chapters, the second holding a cue that starts at
\* the very second the first chapter ends, and a cue of duration 0 among them
C28_Witness ==
    /\ ChaptersCoverVideo
    /\ request.subtitles[CueCount].duration > 0
    /\ CueCount = 5
    /\ Len(subtitle_blocks) = 2
    /\ subtitle_blocks[1].subtitles # <<>>
    /\ subtitle_blocks[2].subtitles # <<>>
    /\ subtitle_blocks[2].subtitles[1].start = subtitle_blocks[1].end_time
    /\ \E i \in 1..(CueCount - 1) : request.subtitles[i].duration = 0
    /\ EveryCueInOneBlock

\* C29: for every transcript that has cues, whatever the chapter sources
\* answer, process_subtitles_with_blocks stores and returns at least one
\* block, so that a lookup with index 0 afterwards finds a block and does
\* not answer that there are no blocks.
C29_BlocksNeverEmpty ==
    (pc = "done" /\ request.subtitles # <<>>) =>
        /\ subtitle_blocks # <<>>
        /\ response[1] # <<>>
        /\ display_toc_entry(subtitle_blocks, IntIndex(0)).kind = "Block"

-----------------------------------------------------------------------------
(* SpecConcurrent: two process_video requests, for different videos, run   *)
(* by two threads of the server on the one app_state.  No lock is taken;   *)
(* every assignment to an attribute of app_state is one step.  Here pc,    *)
(* request and response hold one value per thread.                         *)

Threads == {1, 2}

\* the video each request is for
ThreadVideo == (1 :> "AAAAAAAAAAA") @@ (2 :> "BBBBBBBBBBB")

InitConcurrent ==
    /\ pc = [t \in Threads |-> "idle"]
    /\ request = [t \in Threads |-> <<>>]
    /\ response = [t \in Threads |-> <<>>]
    /\ chapters = <<>>
    /\ queried = <<>>
    /\ InitAppState
    /\ disk \in Disks

\* the blocks a thread's call of process_subtitles_with_blocks computes
ThreadBlocks(t) == VideoBlocks(request[t].video, request[t].nltk_ok)

\* process_video up to the fetch: the id is extracted, a collection found
\* for the video replaces the session's, the subtitles are fetched
ProcessVideoBegin(t) ==
    \E v \in Videos, nltk_ok \in BOOLEAN, fetched \in BOOLEAN :
        LET video_id == ThreadVideo[t]
            existing_db == disk[video_id] # NotSaved /\ disk[video_id].documents # <<>>
        IN /\ pc[t] = "idle"
           /\ v.video_id = video_id
           /\ fetched \/ nltk_ok
           /\ request' = [request EXCEPT ![t] =
                             [op |-> "process_video",
                              youtube_url |-> UrlPrefix \o video_id,
                              video |-> v, nltk_ok |-> nltk_ok,
                              existing_db |-> existing_db]]
           /\ vectordb' = IF existing_db THEN Collection(video_id) ELSE vectordb
           /\ response' = IF fetched THEN response
                          ELSE [response EXCEPT ![t] = [kind |-> "NoSubtitles"]]
           /\ pc' = [pc EXCEPT ![t] = IF fetched THEN "fetched" ELSE "returned"]
           /\ UNCHANGED <<chapters, queried, subtitles, video_info, subtitle_blocks,
                          table_of_contents, qa_chain, current_model, disk>>

\* app_state.subtitles = subtitles
StoreSubtitles(t) ==
    /\ pc[t] = "fetched"
    /\ subtitles' = request[t].video.subtitles
    /\ pc' = [pc EXCEPT ![t] = "subtitles_stored"]
    /\ UNCHANGED <<request, response, chapters, queried, video_info, subtitle_blocks,
                   table_of_contents, vectordb, qa_chain, current_model, disk>>

\* app_state.video_info = video_info
StoreVideoInfo(t) ==
    /\ pc[t] = "subtitles_stored"
    /\ video_info' = FetchedVideoInfo(request[t].video)
    /\ pc' = [pc EXCEPT ![t] = "video_info_stored"]
    /\ UNCHANGED <<request, response, chapters, queried, subtitles, subtitle_blocks,
                   table_of_contents, vectordb, qa_chain, current_model, disk>>

\* process_subtitles_with_blocks: the blocks are made and titled, then
\* app_state.subtitle_blocks = blocks
StoreBlocks(t) ==
    /\ pc[t] = "video_info_stored"
    /\ subtitle_blocks' = ThreadBlocks(t)
    /\ pc' = [pc EXCEPT ![t] = "blocks_stored"]
    /\ UNCHANGED <<request, response, chapters, queried, subtitles, video_info,
                   table_of_contents, vectordb, qa_chain, current_model, disk>>

\* process_subtitles_with_blocks: app_state.table_of_contents = toc
StoreToc(t) ==
    /\ pc[t] = "blocks_stored"
    /\ table_of_contents' = generate_table_of_contents(ThreadBlocks(t))
    /\ pc' = [pc EXCEPT ![t] = "toc_stored"]
    /\ UNCHANGED <<request, response, chapters, queried, subtitles, video_info,
                   subtitle_blocks, vectordb, qa_chain, current_model, disk>>

\* process_subtitles_with_blocks: the blocks' metadata is put into the
\* thread's own video_info dict, which the session shows only while
\* app_state.video_info still is that dict; saving it fails
PutBlocksMetadata(t) ==
    /\ pc[t] = "toc_stored"
    /\ video_info' =
           IF video_info # <<>> /\ video_info.video_id = request[t].video.video_id
           THEN WithBlocksMetadata(video_info, ThreadBlocks(t))
           ELSE video_info
    /\ pc' = [pc EXCEPT ![t] = "segmented"]
    /\ UNCHANGED <<request, response, chapters, queried, subtitles, subtitle_blocks,
                   table_of_contents, vectordb, qa_chain, current_model, disk>>

\* process_video after segmentation: for a video with a saved collection the
\* chain is rebuilt on app_state.vectordb and formatting the answer fails,
\* for a new video making the documents fails; the handler reports the error
ProcessVideoEnd(t) ==
    \E qa_ok \in BOOLEAN :
        /\ pc[t] = "segmented"
        /\ request[t].existing_db \/ qa_ok
        /\ qa_chain' = IF request[t].existing_db /\ qa_ok THEN QaChain(vectordb)
                       ELSE qa_chain
        /\ response' = [response EXCEPT ![t] =
                           IF ~request[t].existing_db
                           THEN Failed("NameError: process_subtitles_to_documents")
                           ELSE IF qa_ok THEN Failed("NameError: format_subtitles")
                           ELSE Failed("setup_qa_chain")]
        /\ pc' = [pc EXCEPT ![t] = "returned"]
        /\ UNCHANGED <<request, chapters, queried, subtitles, video_info,
                       subtitle_blocks, table_of_contents, vectordb, current_model, disk>>

NextConcurrent ==
    \E t \in Threads :
        \/ ProcessVideoBegin(t)
        \/ StoreSubtitles(t)
        \/ StoreVideoInfo(t)
        \/ StoreBlocks(t)
        \/ StoreToc(t)
        \/ PutBlocksMetadata(t)
        \/ ProcessVideoEnd(t)

SpecConcurrent == InitConcurrent /\ [][NextConcurrent]_vars

-----------------------------------------------------------------------------
(* Properties of concurrent requests, checked under SpecConcurrent.        *)

\* both requests have returned, each having fetched its subtitles
BothReturned ==
    \A t \in Threads : pc[t] = "returned" /\ response[t] # [kind |-> "NoSubtitles"]

\* the transcript, video_info, blocks and table of contents of the session
\* are those of thread t's request
SegmentationOf(t) ==
    /\ subtitles = request[t].video.subtitles
    /\ video_info = WithBlocksMetadata(FetchedVideoInfo(request[t].video), ThreadBlocks(t))
    /\ subtitle_blocks = ThreadBlocks(t)
    /\ table_of_contents = generate_table_of_contents(ThreadBlocks(t))

\* C25: whatever the interleaving of two concurrent process_video requests
\* for different videos, the session they leave is entirely that of one of
\* the requests: subtitles, video_info, blocks, table of contents and vector
\* index are all of the same video.
C25_LastWriteWins ==
    BothReturned =>
        \E t \in Threads :
            /\ SegmentationOf(t)
            /\ vectordb = Collection(ThreadVideo[t])

-----------------------------------------------------------------------------
(* SpecChat: process_video, load_database_from_list and chat_with_subtitles *)
(* on one session, in any order.                                           *)

\* the models of the chat dropdown
ChatModels == {"huggingface", "openai", "groq"}

\* setup_qa_chain(vectordb, model_name): a chain on the database, built for
\* the model named
setup_qa_chain(db, model_name) == [vectordb |-> db, model_name |-> model_name]

\* the messages a user sends
Messages == {"", "What is the video about?"}

\* chat_with_subtitles(message, history, model_name).  Without a chain the
\* user is told to process a video; an empty message returns the history as
\* it is.  A model other than app_state.current_model has the chain rebuilt
\* for it (qa_ok: whether setup_qa_chain succeeds) and becomes the current
\* model; then the chain answers (chain_ok: whether the call succeeds).  The
\* answer is written with the model the answering chain was built for.
ChatWithSubtitles ==
    \E message \in Messages, model_name \in ChatModels,
       qa_ok \in BOOLEAN, chain_ok \in BOOLEAN :
        /\ request' = [op |-> "chat_with_subtitles", message |-> message,
                       model_name |-> model_name]
        /\ IF qa_chain = <<>>
           THEN /\ response' = [kind |-> "NoChain"]
                /\ UNCHANGED <<qa_chain, current_model>>
           ELSE IF message = ""
           THEN /\ response' = [kind |-> "History"]
                /\ UNCHANGED <<qa_chain, current_model>>
           ELSE IF model_name # current_model /\ ~qa_ok
           THEN /\ response' = Failed("setup_qa_chain")
                /\ UNCHANGED <<qa_chain, current_model>>
           ELSE /\ qa_chain' = IF model_name # current_model
                               THEN setup_qa_chain(vectordb, model_name)
                               ELSE qa_chain
                /\ current_model' = model_name
                /\ response' = IF chain_ok
                               THEN [kind |-> "Answer", model_name |-> qa_chain'.model_name]
                               ELSE Failed("qa_chain")
        /\ UNCHANGED <<pc, chapters, queried, subtitles, video_info, subtitle_blocks,
                       table_of_contents, vectordb, disk>>

NextChat ==
    \/ ProcessVideoInvalidUrl
    \/ ProcessVideoNoSubtitles
    \/ ProcessVideoFetched
    \/ LoadDatabaseNotFound
    \/ LoadDatabaseFromList
    \/ ChatWithSubtitles

SpecChat == Init /\ [][NextChat]_vars

-----------------------------------------------------------------------------
(* Properties of the chat, checked under SpecChat.                         *)

\* the last operation was a chat request that a chain answered
IsAnsweredChat ==
    /\ request # <<>>
    /\ request.op = "chat_with_subtitles"
    /\ response.kind = "Answer"

\* C30: in every state reached by process_video, reload and chat operations
\* app_state.current_model names the model the current qa_chain was built
\* for, so that a chat request selecting model m is answered by a chain
\* that setup_qa_chain built for m.
C30_CurrentModelBuiltChain ==
    /\ qa_chain # <<>> => qa_chain.model_name = current_model
    /\ IsAnsweredChat => response.model_name = request.model_name

====
